---- MODULE Spec2Model ----
(***************************************************************************)
(* Weekly meal plan of ki-essensplaner: the WeeklyRecommendation object    *)
(* (src/agents/models.py), its multi-day (meal prep) operations, its       *)
(* JSON persistence and the weekly-plan router handlers that load, mutate  *)
(* and save the single persisted plan (src/api/routers/weekly_plan.py).    *)
(***************************************************************************)
EXTENDS Integers, Sequences, FiniteSets, TLC

(***************************************************************************)
(* Bounds of the model.                                                    *)
(***************************************************************************)
\* number of slots the persisted plan holds (a full week holds 14)
NumSlots == 3
\* longest reuse list a set_multi_day request carries
MaxReuse == 2
\* number of candidates every slot of the generated plan starts with
InitRecs == 2
\* number of requests served after the plan was generated
MaxOps == 2
\* largest number of favourite recipes the store holds when a plan is generated
MaxFavorites == 10
\* largest number of new recipes the search finds when a plan is generated
MaxNew == 10

(***************************************************************************)
(* Program constants.                                                      *)
(***************************************************************************)
WEEKDAYS == <<"Montag", "Dienstag", "Mittwoch", "Donnerstag", "Freitag", "Samstag", "Sonntag">>

MEAL_SLOTS == <<"Mittagessen", "Abendessen">>

RECOMMENDATIONS_PER_SLOT == 5

\* Python's None for an optional (weekday, slot) tuple: falsy, like <<>>
None == <<>>

\* Python's None for an optional ScoredRecipe
NoRecipe == [recipe_id |-> 0, url |-> "", is_new |-> FALSE, score |-> 0]

InSeq(x, s) == \E i \in 1..Len(s) : s[i] = x

(***************************************************************************)
(* The 14 (weekday, slot) pairs in canonical order; the plan of the model  *)
(* holds the first NumSlots of them.                                       *)
(***************************************************************************)
AllSlotKeys == [i \in 1..(Len(WEEKDAYS) * Len(MEAL_SLOTS)) |->
                  <<WEEKDAYS[((i - 1) \div Len(MEAL_SLOTS)) + 1],
                    MEAL_SLOTS[((i - 1) % Len(MEAL_SLOTS)) + 1]>>]

PlanKeys == {AllSlotKeys[i] : i \in 1..NumSlots}

\* a (weekday, slot) pair no plan holds
UnknownKey == <<"Feiertag", "Abendessen">>

\* the keys requests name
ArgKeys == PlanKeys \cup {UnknownKey}

\* the reuse lists requests carry
ReuseLists == UNION {[1..n -> ArgKeys] : n \in 0..MaxReuse}

(***************************************************************************)
(* ScoredRecipe: favourites come from the recipe store (recipe_id set).    *)
(***************************************************************************)
ScoredRecipe(id, u, new, sc) == [recipe_id |-> id, url |-> u, is_new |-> new, score |-> sc]

\* the source URLs of the recipes of the store, by recipe id
FavUrls == <<"http://fav/1", "http://fav/2", "http://fav/3", "http://fav/4",
             "http://fav/5", "http://fav/6", "http://fav/7", "http://fav/8",
             "http://fav/9", "http://fav/10", "http://fav/11", "http://fav/12">>

\* the URLs the recipe search finds, best first
NewUrls == <<"http://new/1", "http://new/2", "http://new/3", "http://new/4",
             "http://new/5", "http://new/6", "http://new/7", "http://new/8",
             "http://new/9", "http://new/10", "http://new/11", "http://new/12">>

Favorite(i) == ScoredRecipe(i, FavUrls[i], FALSE, 90 - i)

\* a search result: not in the store, so without recipe id
NewRecipe(j) == ScoredRecipe(0, NewUrls[j], TRUE, 80 - j)

(***************************************************************************)
(* SlotRecommendation                                                      *)
(***************************************************************************)
SlotRecommendation(key, recs) ==
    [weekday |-> key[1], slot |-> key[2], recommendations |-> recs,
     selected_index |-> 0, reuse_from |-> None, prep_days |-> 1]

SlotKey(s) == <<s.weekday, s.slot>>

is_reuse_slot(s) == s.reuse_from # None

top_recipe(s) == IF Len(s.recommendations) > 0 THEN s.recommendations[1] ELSE NoRecipe

selected_recipe(s) ==
    IF is_reuse_slot(s) THEN NoRecipe
    ELSE IF s.selected_index < 0 THEN NoRecipe
    ELSE IF 0 <= s.selected_index /\ s.selected_index < Len(s.recommendations)
         THEN s.recommendations[s.selected_index + 1]
    ELSE top_recipe(s)

\* SlotRecommendation.select without the range check
select_NoRangeCheck(s, index) == <<TRUE, [s EXCEPT !.selected_index = index]>>

\* SlotRecommendation.select: <<returned value, slot afterwards>>
select(s, index) ==
    IF index = -1 THEN <<TRUE, [s EXCEPT !.selected_index = -1]>>
    ELSE IF 0 <= index /\ index < Len(s.recommendations)
         THEN <<TRUE, [s EXCEPT !.selected_index = index]>>
    ELSE <<FALSE, s>>

(***************************************************************************)
(* MultiDayGroup                                                           *)
(***************************************************************************)
MultiDayGroup(pk, reuse) == [primary_weekday |-> pk[1], primary_slot |-> pk[2], reuse_slots |-> reuse]

PrimaryKey(g) == <<g.primary_weekday, g.primary_slot>>

total_days(g) == 1 + Len(g.reuse_slots)

(***************************************************************************)
(* WeeklyRecommendation                                                    *)
(***************************************************************************)
\* index of the first slot with this key, 0 when there is none
get_slot(plan, key) ==
    IF \E i \in 1..Len(plan.slots) : SlotKey(plan.slots[i]) = key
    THEN CHOOSE i \in 1..Len(plan.slots) :
            /\ SlotKey(plan.slots[i]) = key
            /\ \A j \in 1..(i - 1) : SlotKey(plan.slots[j]) # key
    ELSE 0

select_recipe(plan, key, index) ==
    LET i == get_slot(plan, key) IN
    IF i # 0
    THEN LET r == select(plan.slots[i], index) IN
         <<r[1], [plan EXCEPT !.slots[i] = r[2]]>>
    ELSE <<FALSE, plan>>

\* get_recipe_for_slot that does not follow the reuse reference
get_recipe_for_slot_OwnSelection(plan, key) ==
    LET t == get_slot(plan, key) IN
    IF t = 0 THEN NoRecipe ELSE selected_recipe(plan.slots[t])

get_recipe_for_slot(plan, key) ==
    LET t == get_slot(plan, key) IN
    IF t = 0 THEN NoRecipe
    ELSE IF plan.slots[t].reuse_from # None
         THEN LET p == get_slot(plan, plan.slots[t].reuse_from) IN
              IF p # 0 THEN selected_recipe(plan.slots[p]) ELSE NoRecipe
    ELSE selected_recipe(plan.slots[t])

\* set_multi_day without "reuse.recommendations = []"
ConfigureReuseSlot_KeepsCandidates(slots, pk, key) ==
    LET i == get_slot([slots |-> slots], key) IN
    IF i # 0
    THEN [slots EXCEPT ![i] = [@ EXCEPT !.reuse_from = pk, !.prep_days = 1]]
    ELSE slots

\* the body of the loop of set_multi_day over the reuse list
ConfigureReuseSlot(slots, pk, key) ==
    LET i == get_slot([slots |-> slots], key) IN
    IF i # 0
    THEN [slots EXCEPT ![i] = [@ EXCEPT !.reuse_from = pk,
                                        !.recommendations = <<>>,
                                        !.prep_days = 1]]
    ELSE slots

\* the loop of set_multi_day over the reuse list, entry n onwards
RECURSIVE ConfigureReuse(_, _, _, _)
ConfigureReuse(slots, pk, reuse, n) ==
    IF n > Len(reuse) THEN slots
    ELSE ConfigureReuse(ConfigureReuseSlot(slots, pk, reuse[n]), pk, reuse, n + 1)

\* WeeklyRecommendation.set_multi_day: <<returned value, plan afterwards>>
set_multi_day(plan, pk, reuse) ==
    LET p == get_slot(plan, pk) IN
    IF p = 0 THEN <<FALSE, plan>>
    ELSE LET s1 == [plan.slots EXCEPT ![p] = [@ EXCEPT !.prep_days = 1 + Len(reuse),
                                                       !.reuse_from = None]]
             s2 == ConfigureReuse(s1, pk, reuse, 1)
             kept == SelectSeq(plan.multi_day_groups, LAMBDA g : PrimaryKey(g) # pk)
         IN <<TRUE, [plan EXCEPT !.slots = s2,
                                 !.multi_day_groups = Append(kept, MultiDayGroup(pk, reuse))]>>

_get_reuse_slots_for(plan, key) ==
    IF \E i \in 1..Len(plan.multi_day_groups) : PrimaryKey(plan.multi_day_groups[i]) = key
    THEN LET i == CHOOSE i \in 1..Len(plan.multi_day_groups) :
                     /\ PrimaryKey(plan.multi_day_groups[i]) = key
                     /\ \A j \in 1..(i - 1) : PrimaryKey(plan.multi_day_groups[j]) # key
         IN plan.multi_day_groups[i].reuse_slots
    ELSE <<>>

\* the loop of clear_multi_day that frees the reuse slots of a primary
RECURSIVE FreeReuse(_, _, _)
FreeReuse(slots, reuse, n) ==
    IF n > Len(reuse) THEN slots
    ELSE LET i == get_slot([slots |-> slots], reuse[n])
             next == IF i # 0 THEN [slots EXCEPT ![i] = [@ EXCEPT !.reuse_from = None]]
                     ELSE slots
         IN FreeReuse(next, reuse, n + 1)

RemoveAt(s, i) == [j \in 1..(Len(s) - 1) |-> IF j < i THEN s[j] ELSE s[j + 1]]

\* the group update of clear_multi_day on a reuse slot: the first group of the
\* primary drops the slot and is removed when its reuse list becomes empty
DropFromGroup(groups, pk, key) ==
    IF \E i \in 1..Len(groups) : PrimaryKey(groups[i]) = pk
    THEN LET i == CHOOSE i \in 1..Len(groups) :
                     /\ PrimaryKey(groups[i]) = pk
                     /\ \A j \in 1..(i - 1) : PrimaryKey(groups[j]) # pk
             rest == SelectSeq(groups[i].reuse_slots, LAMBDA k : k # key)
         IN IF rest = <<>> THEN RemoveAt(groups, i)
            ELSE [groups EXCEPT ![i] = [@ EXCEPT !.reuse_slots = rest]]
    ELSE groups

Max(a, b) == IF a >= b THEN a ELSE b

\* clear_multi_day that frees a reuse slot without updating the primary's prep_days
clear_multi_day_NoDecrement(plan, key) ==
    LET t == get_slot(plan, key) IN
    IF t = 0 THEN <<FALSE, plan>>
    ELSE IF plan.slots[t].reuse_from # None
    THEN LET pk == plan.slots[t].reuse_from
             s1 == [plan.slots EXCEPT ![t] = [@ EXCEPT !.reuse_from = None]]
         IN <<TRUE, [plan EXCEPT !.slots = s1,
                                 !.multi_day_groups = DropFromGroup(@, pk, key)]>>
    ELSE LET s1 == FreeReuse(plan.slots, _get_reuse_slots_for(plan, key), 1)
             s2 == [s1 EXCEPT ![t] = [@ EXCEPT !.prep_days = 1]]
         IN <<TRUE, [plan EXCEPT !.slots = s2,
                                 !.multi_day_groups =
                                     SelectSeq(@, LAMBDA g : PrimaryKey(g) # key)]>>

\* WeeklyRecommendation.clear_multi_day: <<returned value, plan afterwards>>
clear_multi_day(plan, key) ==
    LET t == get_slot(plan, key) IN
    IF t = 0 THEN <<FALSE, plan>>
    ELSE IF plan.slots[t].reuse_from # None
    THEN LET pk == plan.slots[t].reuse_from
             s1 == [plan.slots EXCEPT ![t] = [@ EXCEPT !.reuse_from = None]]
             p == get_slot([slots |-> s1], pk)
             s2 == IF p # 0
                   THEN [s1 EXCEPT ![p] = [@ EXCEPT !.prep_days = Max(1, @ - 1)]]
                   ELSE s1
         IN <<TRUE, [plan EXCEPT !.slots = s2,
                                 !.multi_day_groups = DropFromGroup(@, pk, key)]>>
    ELSE LET s1 == FreeReuse(plan.slots, _get_reuse_slots_for(plan, key), 1)
             s2 == [s1 EXCEPT ![t] = [@ EXCEPT !.prep_days = 1]]
         IN <<TRUE, [plan EXCEPT !.slots = s2,
                                 !.multi_day_groups =
                                     SelectSeq(@, LAMBDA g : PrimaryKey(g) # key)]>>

(***************************************************************************)
(* Persistence: to_dict / json.dumps / json.loads / from_dict.  A dict     *)
(* value that may be a tuple, a list or None carries its Python type; a    *)
(* JSON document knows arrays and null only.                               *)
(***************************************************************************)
\* None for an optional timestamp string
NoTime == ""

PyTuple(s) == [py |-> "tuple", items |-> s]

PyList(s) == [py |-> "list", items |-> s]

PyNone == [py |-> "None", items |-> <<>>]

JsonArray(s) == [json |-> "array", items |-> s]

JsonNull == [json |-> "null", items |-> <<>>]

to_dict(plan) ==
    [generated_at |-> plan.generated_at,
     week_start |-> plan.week_start,
     completed_at |-> plan.completed_at,
     favorites_count |-> plan.favorites_count,
     new_count |-> plan.new_count,
     multi_day_groups |->
        [i \in 1..Len(plan.multi_day_groups) |->
            LET g == plan.multi_day_groups[i] IN
            [primary_weekday |-> g.primary_weekday,
             primary_slot |-> g.primary_slot,
             reuse_slots |-> [n \in 1..Len(g.reuse_slots) |-> PyTuple(g.reuse_slots[n])]]],
     slots |->
        [i \in 1..Len(plan.slots) |->
            LET s == plan.slots[i] IN
            [weekday |-> s.weekday,
             slot |-> s.slot,
             selected_index |-> s.selected_index,
             reuse_from |-> IF s.reuse_from = None THEN PyNone ELSE PyTuple(s.reuse_from),
             prep_days |-> s.prep_days,
             recommendations |->
                [n \in 1..Len(s.recommendations) |->
                    LET r == s.recommendations[n] IN
                    [recipe_id |-> r.recipe_id, url |-> r.url,
                     is_new |-> r.is_new, score |-> r.score]]]]]

\* json.dumps of one tuple / list / None value
JsonEncode(v) == IF v.py = "None" THEN JsonNull ELSE JsonArray(v.items)

\* json.loads of one array / null value
JsonDecode(v) == IF v.json = "null" THEN PyNone ELSE PyList(v.items)

json_dumps(d) ==
    [d EXCEPT
       !.multi_day_groups =
          [i \in 1..Len(@) |->
              [@[i] EXCEPT !.reuse_slots = [n \in 1..Len(@) |-> JsonEncode(@[n])]]],
       !.slots = [i \in 1..Len(@) |-> [@[i] EXCEPT !.reuse_from = JsonEncode(@)]]]

json_loads(t) ==
    [t EXCEPT
       !.multi_day_groups =
          [i \in 1..Len(@) |->
              [@[i] EXCEPT !.reuse_slots = [n \in 1..Len(@) |-> JsonDecode(@[n])]]],
       !.slots = [i \in 1..Len(@) |-> [@[i] EXCEPT !.reuse_from = JsonDecode(@)]]]

\* from_dict that keeps a reuse_from only when it already is a tuple
ParseReuseFrom_TupleOnly(v) ==
    IF v.py = "tuple" /\ Len(v.items) > 0 THEN v.items ELSE None

\* "Parse reuse_from tuple" of from_dict
ParseReuseFrom(v) ==
    LET truthy == v.py # "None" /\ Len(v.items) > 0 IN
    IF truthy /\ v.py = "list" /\ Len(v.items) = 2 THEN v.items
    ELSE IF truthy /\ v.py = "tuple" THEN v.items
    ELSE None

from_dict(data) ==
    [generated_at |-> data.generated_at,
     week_start |-> data.week_start,
     completed_at |-> data.completed_at,
     favorites_count |-> data.favorites_count,
     new_count |-> data.new_count,
     slots |->
        [i \in 1..Len(data.slots) |->
            LET s == data.slots[i] IN
            [weekday |-> s.weekday,
             slot |-> s.slot,
             recommendations |->
                [n \in 1..Len(s.recommendations) |->
                    LET r == s.recommendations[n] IN
                    ScoredRecipe(r.recipe_id, r.url, r.is_new, r.score)],
             selected_index |-> s.selected_index,
             reuse_from |-> ParseReuseFrom(s.reuse_from),
             prep_days |-> s.prep_days]],
     multi_day_groups |->
        [i \in 1..Len(data.multi_day_groups) |->
            LET g == data.multi_day_groups[i] IN
            [primary_weekday |-> g.primary_weekday,
             primary_slot |-> g.primary_slot,
             reuse_slots |-> [n \in 1..Len(g.reuse_slots) |-> g.reuse_slots[n].items]]]]

to_json(plan) == json_dumps(to_dict(plan))

from_json(text) == from_dict(json_loads(text))

\* the content save_weekly_plan writes to WEEKLY_PLAN_FILE
save_weekly_plan(plan) == to_json(plan)

\* WEEKLY_PLAN_FILE does not exist
NoFile == [exists |-> FALSE]

\* Python's None for an optional WeeklyRecommendation
NoPlan == [exists |-> FALSE]

\* the plan load_weekly_plan reads from the content of WEEKLY_PLAN_FILE
load_weekly_plan(content) == IF content = NoFile THEN NoPlan ELSE from_json(content)

(***************************************************************************)
(* Collaborators of select-url: the recipe store and the scraper.          *)
(***************************************************************************)
\* a recipe of the store / a scrape result; id 0: none
Recipe(id, u) == [id |-> id, source_url |-> u]

NoStoreRecipe == Recipe(0, "")

get_recipe_by_url(url) ==
    IF \E i \in 1..Len(FavUrls) : FavUrls[i] = url
    THEN Recipe(CHOOSE i \in 1..Len(FavUrls) : FavUrls[i] = url, url)
    ELSE NoStoreRecipe

\* scrape_recipe followed by upsert_recipe; none when the page cannot be scraped
scrape_recipe(url) == IF url = "http://new/1" THEN Recipe(Len(FavUrls) + 1, url) ELSE NoStoreRecipe

startswith_http(url) == InSeq(url, FavUrls) \/ InSeq(url, NewUrls) \/ url = "http://bad/1"

\* the URLs select-url requests carry
RequestUrls == {"http://fav/1", "http://fav/3", "http://new/1", "http://bad/1", "ftp://x"}

\* the candidate indexes select requests carry
RequestIndexes == {-1, 0, 1, InitRecs, RECOMMENDATIONS_PER_SLOT}

(***************************************************************************)
(* Plan generation: run_search_agent and _assign_recipes_to_slots.         *)
(***************************************************************************)
TARGET_FAVORITES_RATIO_PERCENT == 60

MAX_DETAIL_FETCH == 10

\* SLOT_GROUP_MAPPING.get((weekday, slot), SlotGroup.NORMAL)
SLOT_GROUP_MAPPING(key) ==
    IF key \in {<<"Mittwoch", "Mittagessen">>, <<"Donnerstag", "Mittagessen">>,
                <<"Freitag", "Mittagessen">>} THEN "quick"
    ELSE IF key \in {<<"Montag", "Mittagessen">>, <<"Dienstag", "Mittagessen">>,
                     <<"Samstag", "Abendessen">>, <<"Sonntag", "Mittagessen">>,
                     <<"Sonntag", "Abendessen">>, <<"Montag", "Abendessen">>} THEN "elaborate"
    ELSE "normal"

\* the groups in the order a dict keeps them: by first occurrence
RECURSIVE GroupOrder(_, _, _)
GroupOrder(keys, n, acc) ==
    IF n > Len(keys) THEN acc
    ELSE GroupOrder(keys, n + 1,
                    IF InSeq(SLOT_GROUP_MAPPING(keys[n]), acc) THEN acc
                    ELSE Append(acc, SLOT_GROUP_MAPPING(keys[n])))

RECURSIVE Flatten(_, _)
Flatten(groups, keys) ==
    IF groups = <<>> THEN <<>>
    ELSE SelectSeq(keys, LAMBDA k : SLOT_GROUP_MAPPING(k) = Head(groups))
         \o Flatten(Tail(groups), keys)

\* _get_slot_groups_to_search followed by the flattening of run_search_agent;
\* "" stands for a target that is None
all_slots(target_day, target_slot) ==
    LET keys == SelectSeq(AllSlotKeys,
                          LAMBDA k : /\ (target_day # "" => k[1] = target_day)
                                     /\ (target_slot # "" => k[2] = target_slot))
    IN Flatten(GroupOrder(keys, 1, <<>>), keys)

\* get_blacklisted_recipe_ids: the recipes rated with one star
get_blacklisted_recipe_ids == {3}

\* is_recipe_viable, as far as the blacklist decides it
is_recipe_viable(id) == ~(id # 0 /\ id \in get_blacklisted_recipe_ids)

\* list.sort(key=score, reverse=True): stable insertion by descending score
RECURSIVE SortByScore(_)
SortByScore(list) ==
    IF list = <<>> THEN <<>>
    ELSE LET rest == SortByScore(Tail(list))
             before == SelectSeq(rest, LAMBDA r : r.score > Head(list).score)
             after == SelectSeq(rest, LAMBDA r : r.score <= Head(list).score)
         IN before \o <<Head(list)>> \o after

\* _score_favorites on the recipe ids _get_favorites_from_db returns
_score_favorites(raw) ==
    SortByScore([n \in 1..Len(SelectSeq(raw, is_recipe_viable)) |->
                    Favorite(SelectSeq(raw, is_recipe_viable)[n])])

\* _load_recipe_details: the first MAX_DETAIL_FETCH results that carry a URL
_load_recipe_details(found) ==
    SelectSeq(SubSeq(found, 1, IF Len(found) < MAX_DETAIL_FETCH THEN Len(found)
                               ELSE MAX_DETAIL_FETCH),
              LAMBDA r : r.url # "")

\* a target of 40 percent favourites instead of 60
target_favorites_Forty(total_slots) == (total_slots * 40) \div 100

\* int(total_slots * target_favorites_ratio)
target_favorites(total_slots) == (total_slots * TARGET_FAVORITES_RATIO_PERCENT) \div 100

\* first pass, the loop that fills a slot with further favourites
RECURSIVE FillUnusedFavorites(_, _, _, _, _)
FillUnusedFavorites(slot_recipes, favorites, n, used, best) ==
    IF n > Len(favorites) \/ Len(slot_recipes) >= RECOMMENDATIONS_PER_SLOT THEN slot_recipes
    ELSE LET fav == favorites[n] IN
         FillUnusedFavorites(
             IF /\ (fav.recipe_id \notin used \/ fav.recipe_id = best.recipe_id)
                /\ ~InSeq(fav, slot_recipes)
             THEN Append(slot_recipes, fav) ELSE slot_recipes,
             favorites, n + 1, used, best)

\* first pass over the slots from slot k on: the recommendations made
RECURSIVE FirstPass(_, _, _, _, _, _)
FirstPass(slots, favorites, target, k, used, recs) ==
    IF k > Len(slots) \/ Len(recs) >= target THEN recs
    ELSE LET unused == SelectSeq(favorites,
                                 LAMBDA f : f.recipe_id # 0 /\ f.recipe_id \notin used)
         IN IF unused = <<>> THEN FirstPass(slots, favorites, target, k + 1, used, recs)
            ELSE LET best_favorite == unused[1]
                     used2 == used \cup {best_favorite.recipe_id}
                     slot_recipes == FillUnusedFavorites(<<best_favorite>>, favorites, 1,
                                                         used2, best_favorite)
                 IN FirstPass(slots, favorites, target, k + 1, used2,
                              Append(recs, SlotRecommendation(slots[k],
                                  SubSeq(slot_recipes, 1,
                                         IF Len(slot_recipes) < RECOMMENDATIONS_PER_SLOT
                                         THEN Len(slot_recipes)
                                         ELSE RECOMMENDATIONS_PER_SLOT))))

\* second pass, the loop over the new recipes: the candidates and the used URLs
RECURSIVE TakeNew(_, _, _, _)
TakeNew(slot_recipes, new_recipes, n, used) ==
    IF n > Len(new_recipes) \/ Len(slot_recipes) >= RECOMMENDATIONS_PER_SLOT
    THEN [recs |-> slot_recipes, used |-> used]
    ELSE LET new == new_recipes[n] IN
         IF new.url # "" /\ new.url \notin used
         THEN TakeNew(Append(slot_recipes, new), new_recipes, n + 1,
                      IF Len(slot_recipes) = 0 THEN used \cup {new.url} ELSE used)
         ELSE TakeNew(slot_recipes, new_recipes, n + 1, used)

\* second pass, the loop that fills up with favourites
RECURSIVE FillFavorites(_, _, _)
FillFavorites(slot_recipes, favorites, n) ==
    IF n > Len(favorites) \/ Len(slot_recipes) >= RECOMMENDATIONS_PER_SLOT THEN slot_recipes
    ELSE FillFavorites(
             IF ~InSeq(favorites[n], slot_recipes)
             THEN Append(slot_recipes, favorites[n]) ELSE slot_recipes,
             favorites, n + 1)

\* second pass over the slots from slot k on
RECURSIVE SecondPass(_, _, _, _, _, _, _)
SecondPass(slots, favorites, new_recipes, assigned, k, used, recs) ==
    IF k > Len(slots) THEN recs
    ELSE IF slots[k] \in assigned
    THEN SecondPass(slots, favorites, new_recipes, assigned, k + 1, used, recs)
    ELSE LET taken == TakeNew(<<>>, new_recipes, 1, used)
             slot_recipes == IF Len(taken.recs) < RECOMMENDATIONS_PER_SLOT
                             THEN FillFavorites(taken.recs, favorites, 1)
                             ELSE taken.recs
         IN SecondPass(slots, favorites, new_recipes, assigned, k + 1, taken.used,
                       Append(recs, SlotRecommendation(slots[k], slot_recipes)))

\* recommendations.sort(key=(day_order, slot_order)): stable, canonical order
RECURSIVE SortSlots(_, _)
SortSlots(recs, i) ==
    IF i > Len(AllSlotKeys) THEN <<>>
    ELSE SelectSeq(recs, LAMBDA r : SlotKey(r) = AllSlotKeys[i]) \o SortSlots(recs, i + 1)

_assign_recipes_to_slots(slots, favorites, new_recipes) ==
    LET first == FirstPass(slots, favorites, target_favorites(Len(slots)), 1, {}, <<>>)
        assigned_slots == {SlotKey(first[n]) : n \in 1..Len(first)}
    IN SortSlots(SecondPass(slots, favorites, new_recipes, assigned_slots, 1, {}, first), 1)

\* datetime.now().isoformat() while the n-th request is served
Timestamps == <<"2026-01-05T08:00:00", "2026-01-05T09:00:00", "2026-01-05T10:00:00",
                "2026-01-05T11:00:00", "2026-01-05T12:00:00", "2026-01-05T13:00:00",
                "2026-01-05T14:00:00", "2026-01-05T15:00:00">>

isoformat(n) == Timestamps[n + 1]

\* run_search_agent on the favourites of the store and the results of the search
run_search_agent(target_day, target_slot, raw, found, now) ==
    LET favorites == _score_favorites(raw)
        new_recipes == _load_recipe_details(found)
        slot_recommendations ==
            _assign_recipes_to_slots(all_slots(target_day, target_slot), favorites, new_recipes)
        favorites_count ==
            Cardinality({n \in 1..Len(slot_recommendations) :
                            /\ top_recipe(slot_recommendations[n]) # NoRecipe
                            /\ ~top_recipe(slot_recommendations[n]).is_new})
    IN [generated_at |-> now,
        week_start |-> "2026-01-10",
        completed_at |-> NoTime,
        favorites_count |-> favorites_count,
        new_count |-> Len(slot_recommendations) - favorites_count,
        slots |-> slot_recommendations,
        multi_day_groups |-> <<>>]

(***************************************************************************)
(* Readers of the plan: completion (_build_meal_plan), the shopping list   *)
(* loop over the slots, and the next-meal sensor reading the GET response. *)
(***************************************************************************)
\* the slots _build_meal_plan turns into meals, in plan order
_build_meal_plan(p) ==
    SelectSeq([i \in 1..Len(p.slots) |-> [key |-> SlotKey(p.slots[i]),
                                           recipe |-> selected_recipe(p.slots[i]),
                                           reuse |-> is_reuse_slot(p.slots[i])]],
              LAMBDA m : /\ ~m.reuse
                         /\ m.recipe # NoRecipe
                         /\ InSeq(m.key[1], WEEKDAYS)
                         /\ InSeq(m.key[2], MEAL_SLOTS))

\* the label generate_shopping_list attributes the ingredients of a slot to
recipe_label(p, s) ==
    IF s.prep_days > 1
    THEN <<SlotKey(s)>> \o _get_reuse_slots_for(p, SlotKey(s))
    ELSE <<SlotKey(s)>>

\* the slots whose recipe generate_shopping_list aggregates, in plan order
generate_shopping_list(p) ==
    SelectSeq([i \in 1..Len(p.slots) |-> [key |-> SlotKey(p.slots[i]),
                                           recipe |-> selected_recipe(p.slots[i]),
                                           reuse |-> is_reuse_slot(p.slots[i]),
                                           label |-> recipe_label(p, p.slots[i]),
                                           factor |-> p.slots[i].prep_days]],
              LAMBDA e : ~e.reuse /\ e.recipe # NoRecipe)

\* the slot of the GET response: a reuse slot shows the primary's selected candidate
_convert_to_response(p, i) ==
    LET s == p.slots[i]
        q == IF s.reuse_from # None THEN get_slot(p, s.reuse_from) ELSE 0
        shown == IF q # 0 /\ p.slots[q].recommendations # <<>>
                    /\ 0 <= p.slots[q].selected_index
                    /\ p.slots[q].selected_index < Len(p.slots[q].recommendations)
                 THEN <<p.slots[q].recommendations[p.slots[q].selected_index + 1]>>
                 ELSE s.recommendations
    IN [weekday |-> s.weekday, slot |-> s.slot, recommendations |-> shown,
        selected_index |-> s.selected_index]

\* Python's list[index]: a negative index counts from the end
PyIndex(list, index) == IF index >= 0 THEN list[index + 1] ELSE list[Len(list) + index + 1]

\* NextMealSensor.native_value for the slot that is next: the recipe whose title
\* it reports, none for "Keine Mahlzeit geplant"
native_value(slot_data) ==
    IF slot_data.recommendations = <<>> \/ slot_data.selected_index >= Len(slot_data.recommendations)
    THEN NoRecipe
    ELSE PyIndex(slot_data.recommendations, slot_data.selected_index)

(***************************************************************************)
(* State: the content of WEEKLY_PLAN_FILE, the plan object the last        *)
(* request held when it returned, the plan it had loaded, and what the     *)
(* request was and how it was answered.                                    *)
(***************************************************************************)
VARIABLES file, plan, pre, last, ops, favorites_raw, new_recipes_raw, inflight, call

vars == <<file, plan, pre, last, ops, favorites_raw, new_recipes_raw, inflight, call>>

\* no call of a scoring or shopping function is in progress
NoCall == [fn |-> "none"]

Request(op, key, reuse, index, url, status) ==
    [op |-> op, key |-> key, reuse |-> reuse, index |-> index, url |-> url, status |-> status]

\* the plan a generation leaves: every slot holds the same InitRecs favourites
GeneratedPlan ==
    [generated_at |-> isoformat(0),
     week_start |-> "2026-01-10",
     completed_at |-> NoTime,
     favorites_count |-> IF InitRecs > 0 THEN NumSlots ELSE 0,
     new_count |-> IF InitRecs > 0 THEN 0 ELSE NumSlots,
     slots |-> [i \in 1..NumSlots |->
                  SlotRecommendation(AllSlotKeys[i], [n \in 1..InitRecs |-> Favorite(n)])],
     multi_day_groups |-> <<>>]

Init ==
    /\ file = save_weekly_plan(GeneratedPlan)
    /\ plan = GeneratedPlan
    /\ pre = GeneratedPlan
    /\ last = Request("generate", None, <<>>, 0, "", 202)
    /\ ops = 0
    /\ favorites_raw = [n \in 1..InitRecs |-> n]
    /\ new_recipes_raw = <<>>
    /\ inflight = <<>>
    /\ call = NoCall

\* a handler answers: the plan object it holds, what it loaded, and the file
Answer(req, loaded, held, saved) ==
    /\ ops' = ops + 1
    /\ last' = req
    /\ pre' = loaded
    /\ plan' = held
    /\ file' = IF saved THEN save_weekly_plan(held) ELSE file
    /\ UNCHANGED <<favorites_raw, new_recipes_raw, inflight, call>>

\* POST /api/weekly-plan/multi-day
router_set_multi_day(pk, reuse) ==
    LET loaded == load_weekly_plan(file)
        r == IF loaded = NoPlan THEN <<FALSE, loaded>> ELSE set_multi_day(loaded, pk, reuse)
    IN IF loaded = NoPlan
       THEN Answer(Request("set_multi_day", pk, reuse, 0, "", 404), loaded, loaded, FALSE)
       ELSE IF ~r[1]
       THEN Answer(Request("set_multi_day", pk, reuse, 0, "", 400), loaded, r[2], FALSE)
       ELSE Answer(Request("set_multi_day", pk, reuse, 0, "", 200), loaded, r[2], TRUE)

\* DELETE /api/weekly-plan/multi-day/{weekday}/{slot}
router_clear_multi_day(key) ==
    LET loaded == load_weekly_plan(file)
        r == IF loaded = NoPlan THEN <<FALSE, loaded>> ELSE clear_multi_day(loaded, key)
    IN IF loaded = NoPlan
       THEN Answer(Request("clear_multi_day", key, <<>>, 0, "", 404), loaded, loaded, FALSE)
       ELSE IF ~r[1]
       THEN Answer(Request("clear_multi_day", key, <<>>, 0, "", 400), loaded, r[2], FALSE)
       ELSE Answer(Request("clear_multi_day", key, <<>>, 0, "", 200), loaded, r[2], TRUE)

\* WeeklyRecommendation.select_recipe called on the loaded plan, saved on success
plan_select_recipe(key, index) ==
    LET loaded == load_weekly_plan(file)
        r == select_recipe(loaded, key, index)
    IN Answer(Request("select", key, <<>>, index, "", IF r[1] THEN 200 ELSE 400),
              loaded, r[2], r[1])

\* SelectRecipeRequest: recipe_index is declared with ge=0, le=4
SelectRecipeRequest(index) == 0 <= index /\ index <= 4

\* POST /api/weekly-plan/select on a loaded plan: <<status, plan held afterwards>>;
\* the request body is validated against SelectRecipeRequest before the handler runs
select_recipe_response(loaded, key, index) ==
    IF ~SelectRecipeRequest(index) THEN <<422, loaded>>
    ELSE IF loaded = NoPlan THEN <<404, loaded>>
    ELSE IF ~InSeq(key[1], WEEKDAYS) \/ ~InSeq(key[2], MEAL_SLOTS) THEN <<422, loaded>>
    ELSE IF get_slot(loaded, key) = 0 THEN <<404, loaded>>
    ELSE IF index # -1
            /\ ~(0 <= index /\ index < Len(loaded.slots[get_slot(loaded, key)].recommendations))
         THEN <<422, loaded>>
    ELSE LET r == select_recipe(loaded, key, index) IN
         IF ~r[1] THEN <<500, r[2]>> ELSE <<200, r[2]>>

router_select_recipe(key, index) ==
    LET loaded == load_weekly_plan(file)
        r == select_recipe_response(loaded, key, index)
    IN Answer(Request("router_select", key, <<>>, index, "", r[1]), loaded, r[2], r[1] = 200)

\* index of the first candidate with this URL, 0 when there is none
IndexOfUrl(recs, url) ==
    IF \E i \in 1..Len(recs) : recs[i].url = url
    THEN CHOOSE i \in 1..Len(recs) : recs[i].url = url /\ \A j \in 1..(i - 1) : recs[j].url # url
    ELSE 0

\* index of the first candidate with this recipe id, 0 when there is none or the id is none
IndexOfId(recs, id) ==
    IF id # 0 /\ \E i \in 1..Len(recs) : recs[i].recipe_id = id
    THEN CHOOSE i \in 1..Len(recs) :
            recs[i].recipe_id = id /\ \A j \in 1..(i - 1) : recs[j].recipe_id # id
    ELSE 0

\* POST /api/weekly-plan/select-url on a loaded plan: <<status, plan held afterwards>>;
\* the plan is saved exactly when the answer is 200
select_recipe_url_response(loaded, key, url) ==
    LET i == IF loaded = NoPlan THEN 0 ELSE get_slot(loaded, key)
    IN IF loaded = NoPlan THEN <<404, loaded>>
       ELSE IF ~InSeq(key[1], WEEKDAYS) \/ ~InSeq(key[2], MEAL_SLOTS) THEN <<422, loaded>>
       ELSE IF i = 0 THEN <<404, loaded>>
       ELSE IF is_reuse_slot(loaded.slots[i]) THEN <<422, loaded>>
       ELSE IF ~startswith_http(url) THEN <<422, loaded>>
       ELSE
       LET recs == loaded.slots[i].recommendations
           byUrl == IndexOfUrl(recs, url)
           stored == get_recipe_by_url(url)
           recipe == IF stored.id = 0 THEN scrape_recipe(url) ELSE stored
           byId == IF stored.id = 0 THEN 0 ELSE IndexOfId(recs, recipe.id)
           custom == ScoredRecipe(recipe.id, IF recipe.source_url # "" THEN recipe.source_url ELSE url,
                                  FALSE, 0)
       IN IF byUrl # 0
          THEN <<200, [loaded EXCEPT !.slots[i].selected_index = byUrl - 1]>>
          ELSE IF recipe.id = 0 THEN <<422, loaded>>
          ELSE IF byId # 0
          THEN <<200, [loaded EXCEPT !.slots[i].selected_index = byId - 1]>>
          ELSE <<200, [loaded EXCEPT !.slots[i].recommendations = Append(recs, custom),
                                     !.slots[i].selected_index = Len(recs)]>>

\* POST /api/weekly-plan/select-url
router_select_recipe_url(key, url) ==
    LET loaded == load_weekly_plan(file)
        r == select_recipe_url_response(loaded, key, url)
    IN Answer(Request("select_url", key, <<>>, 0, url, r[1]), loaded, r[2], r[1] = 200)

SetMultiDay ==
    /\ ops < MaxOps
    /\ \E pk \in ArgKeys, reuse \in ReuseLists : router_set_multi_day(pk, reuse)

ClearMultiDay ==
    /\ ops < MaxOps
    /\ \E key \in ArgKeys : router_clear_multi_day(key)

SelectRecipe ==
    /\ ops < MaxOps
    /\ \E key \in ArgKeys, index \in RequestIndexes : plan_select_recipe(key, index)

RouterSelectRecipe ==
    /\ ops < MaxOps
    /\ \E key \in ArgKeys, index \in RequestIndexes : router_select_recipe(key, index)

SelectRecipeUrl ==
    /\ ops < MaxOps
    /\ \E key \in ArgKeys, url \in RequestUrls : router_select_recipe_url(key, url)

Next == SetMultiDay \/ ClearMultiDay \/ SelectRecipe \/ RouterSelectRecipe \/ SelectRecipeUrl

Spec == Init /\ [][Next]_vars

(***************************************************************************)
(* Life cycle of the persisted plan: generation in the background, GET,    *)
(* completion and DELETE, for every number of favourites and new recipes.  *)
(***************************************************************************)
\* _generate_plan_sync with no multi-day preferences and no skipped slots:
\* run_search_agent saves the plan it returns and the caller saves it again
_generate_plan_sync ==
    LET loaded == load_weekly_plan(file)
        generated == run_search_agent("", "", favorites_raw, new_recipes_raw, isoformat(ops + 1))
    IN Answer(Request("generate", None, <<>>, 0, "", 202), loaded, generated, TRUE)

\* GET /api/weekly-plan
get_weekly_plan ==
    LET loaded == load_weekly_plan(file)
    IN Answer(Request("get", None, <<>>, 0, "", IF loaded = NoPlan THEN 404 ELSE 200),
              loaded, loaded, FALSE)

\* DELETE /api/weekly-plan
delete_weekly_plan ==
    /\ ops' = ops + 1
    /\ last' = Request("delete", None, <<>>, 0, "", 204)
    /\ pre' = load_weekly_plan(file)
    /\ plan' = NoPlan
    /\ file' = NoFile
    /\ UNCHANGED <<favorites_raw, new_recipes_raw, inflight, call>>

\* POST /api/weekly-plan/complete on a loaded plan; week_start "" stands for a
\* request without one.  The answer is always 200: <<plan held afterwards, saved>>
complete_response(loaded, week_start, now) ==
    IF loaded = NoPlan THEN <<loaded, FALSE>>
    ELSE IF week_start # "" /\ week_start # loaded.week_start THEN <<loaded, FALSE>>
    ELSE IF loaded.completed_at = NoTime THEN <<[loaded EXCEPT !.completed_at = now], TRUE>>
    ELSE <<loaded, FALSE>>

\* POST /api/weekly-plan/complete; url carries the week_start of the request
complete_weekly_plan(week_start) ==
    LET loaded == load_weekly_plan(file)
        r == complete_response(loaded, week_start, isoformat(ops + 1))
    IN Answer(Request("complete", None, <<>>, 0, week_start, 200), loaded, r[1], r[2])

GenInit ==
    /\ file = NoFile
    /\ plan = NoPlan
    /\ pre = NoPlan
    /\ last = Request("start", None, <<>>, 0, "", 0)
    /\ ops = 0
    /\ \E F \in 0..MaxFavorites : favorites_raw = [n \in 1..F |-> F + 1 - n]
    /\ \E N \in 0..MaxNew : new_recipes_raw = [j \in 1..N |-> NewRecipe(j)]
    /\ inflight = <<>>
    /\ call = NoCall

GeneratePlan ==
    /\ ops < MaxOps
    /\ _generate_plan_sync

GetPlan ==
    /\ ops < MaxOps
    /\ get_weekly_plan

DeletePlan ==
    /\ ops < MaxOps
    /\ delete_weekly_plan

CompletePlan ==
    /\ ops < MaxOps
    /\ \E week_start \in {"", "2026-01-10", "2026-01-03"} : complete_weekly_plan(week_start)

GenNext == GeneratePlan \/ GetPlan \/ DeletePlan \/ CompletePlan \/ SelectRecipeUrl

GenSpec == GenInit /\ [][GenNext]_vars

(***************************************************************************)
(* Concurrent requests.  The handlers are plain functions, which the       *)
(* server runs in worker threads, and the generation is a background task: *)
(* each request reads WEEKLY_PLAN_FILE in one step and writes it in a      *)
(* later one, and nothing in the code orders the steps of two requests.    *)
(* inflight holds one record per started request: the request, the plan    *)
(* object it holds, and how far it has come.                               *)
(***************************************************************************)
Process(req, held, pc) == [req |-> req, held |-> held, pc |-> pc]

\* the requests that run concurrently
ConcRequests ==
    {Request("router_select", k, <<>>, 1, "", 0) : k \in {AllSlotKeys[1], AllSlotKeys[2]}}
    \cup {Request("set_multi_day", AllSlotKeys[1], <<AllSlotKeys[2]>>, 0, "", 0),
          Request("clear_multi_day", AllSlotKeys[2], <<>>, 0, "", 0),
          Request("select_url", AllSlotKeys[1], <<>>, 0, "http://new/1", 0),
          Request("complete", None, <<>>, 0, "", 0),
          Request("get", None, <<>>, 0, "", 0),
          Request("delete", None, <<>>, 0, "", 0),
          Request("generate", None, <<>>, 0, "", 0)}

\* what a handler answers and does with the plan it loaded:
\* <<status, plan held afterwards, saved>>
handler_result(req, loaded, now) ==
    IF req.op = "router_select"
    THEN LET r == select_recipe_response(loaded, req.key, req.index)
         IN <<r[1], r[2], r[1] = 200>>
    ELSE IF req.op = "select_url"
    THEN LET r == select_recipe_url_response(loaded, req.key, req.url)
         IN <<r[1], r[2], r[1] = 200>>
    ELSE IF req.op = "set_multi_day"
    THEN IF loaded = NoPlan THEN <<404, loaded, FALSE>>
         ELSE LET r == set_multi_day(loaded, req.key, req.reuse)
              IN <<IF r[1] THEN 200 ELSE 400, r[2], r[1]>>
    ELSE IF req.op = "clear_multi_day"
    THEN IF loaded = NoPlan THEN <<404, loaded, FALSE>>
         ELSE LET r == clear_multi_day(loaded, req.key)
              IN <<IF r[1] THEN 200 ELSE 400, r[2], r[1]>>
    ELSE IF req.op = "complete"
    THEN LET r == complete_response(loaded, req.url, now)
         IN <<200, r[1], r[2]>>
    ELSE <<IF loaded = NoPlan THEN 404 ELSE 200, loaded, FALSE>>

\* a request starts: the handler loads the plan (DELETE tests whether the file
\* exists); the generation task runs the agent, which does not read the plan
StartRequest(req) ==
    /\ ops < MaxOps
    /\ ops' = ops + 1
    /\ inflight' =
          Append(inflight,
                 Process(req,
                         IF req.op = "generate"
                         THEN run_search_agent("", "", favorites_raw, new_recipes_raw,
                                               isoformat(ops + 1))
                         ELSE load_weekly_plan(file),
                         "loaded"))
    /\ UNCHANGED <<file, plan, pre, last, favorites_raw, new_recipes_raw, call>>

\* run_search_agent saves the plan it is about to return
AgentSave(i) ==
    /\ inflight[i].req.op = "generate"
    /\ inflight[i].pc = "loaded"
    /\ file' = save_weekly_plan(inflight[i].held)
    /\ inflight' = [inflight EXCEPT ![i].pc = "saved"]
    /\ UNCHANGED <<plan, pre, last, ops, favorites_raw, new_recipes_raw, call>>

\* the rest of a request: the mutation of the plan it holds, the write, the answer.
\* DELETE unlinks the file it saw; unlink of a file that is gone raises (500).
FinishRequest(i) ==
    LET p == inflight[i]
        r == handler_result(p.req, p.held, isoformat(i))
        status == IF p.req.op = "generate" THEN 202
                  ELSE IF p.req.op = "delete"
                  THEN IF p.held # NoPlan /\ file = NoFile THEN 500 ELSE 204
                  ELSE r[1]
    IN /\ p.pc = IF p.req.op = "generate" THEN "saved" ELSE "loaded"
       /\ file' = IF p.req.op = "generate" THEN save_weekly_plan(p.held)
                  ELSE IF p.req.op = "delete"
                  THEN IF p.held # NoPlan THEN NoFile ELSE file
                  ELSE IF r[3] THEN save_weekly_plan(r[2]) ELSE file
       /\ plan' = IF p.req.op = "generate" THEN p.held
                  ELSE IF p.req.op = "delete" THEN NoPlan
                  ELSE r[2]
       /\ pre' = IF p.req.op = "generate" THEN pre ELSE p.held
       /\ last' = [p.req EXCEPT !.status = status]
       /\ inflight' = [inflight EXCEPT ![i].pc = "done", ![i].req.status = status]
       /\ UNCHANGED <<ops, favorites_raw, new_recipes_raw, call>>

ConcInit ==
    /\ file = save_weekly_plan(GeneratedPlan)
    /\ plan = GeneratedPlan
    /\ pre = GeneratedPlan
    /\ last = Request("start", None, <<>>, 0, "", 0)
    /\ ops = 0
    /\ favorites_raw = [n \in 1..InitRecs |-> n]
    /\ new_recipes_raw = <<>>
    /\ inflight = <<>>
    /\ call = NoCall

Start == \E req \in ConcRequests : StartRequest(req)

SaveGenerated == \E i \in DOMAIN inflight : AgentSave(i)

Finish == \E i \in DOMAIN inflight : FinishRequest(i)

ConcNext == Start \/ SaveGenerated \/ Finish

ConcSpec == ConcInit /\ [][ConcNext]_vars

\* the file after the request of process i has run alone on a file with this content
RunAlone(content, processes, i) ==
    LET req == processes[i].req
        r == handler_result(req, load_weekly_plan(content), isoformat(i))
    IN IF req.op = "generate"
       THEN save_weekly_plan(run_search_agent("", "", favorites_raw, new_recipes_raw, isoformat(i)))
       ELSE IF req.op = "delete" THEN NoFile
       ELSE IF r[3] THEN save_weekly_plan(r[2]) ELSE content

\* the files the requests of the processes in S leave when they run one after
\* the other, in every order
RECURSIVE SerialResults(_, _, _)
SerialResults(content, processes, S) ==
    IF S = {} THEN {content}
    ELSE UNION {SerialResults(RunAlone(content, processes, i), processes, S \ {i}) : i \in S}

\* the step is taken by a request of this kind after it has started
StepOf(op) ==
    \/ inflight' = <<>> /\ ops' = ops + 1 /\ last'.op = op
    \/ \E i \in DOMAIN inflight : inflight[i].req.op = op /\ inflight'[i].pc # inflight[i].pc

(***************************************************************************)
(* Vocabulary of the properties.                                           *)
(***************************************************************************)
HasSlot(p, key) == get_slot(p, key) # 0

\* the slot of an existing key
SlotOf(p, key) == p.slots[get_slot(p, key)]

Groups(p) == {p.multi_day_groups[i] : i \in 1..Len(p.multi_day_groups)}

GroupsOf(p, pk) == {g \in Groups(p) : PrimaryKey(g) = pk}

Targets(g) == {g.reuse_slots[n] : n \in 1..Len(g.reuse_slots)}

\* the last request was this operation and it reported success
Did(op) == last.op = op /\ last.status = 200

\* the persisted plan, as the next request will load it
Persisted == load_weekly_plan(file)

\* the last request left the plan object and the persisted plan as they were
Untouched == plan = pre /\ Persisted = pre

(***************************************************************************)
(* C1: the two directions of the multi-day relation agree: every entry of  *)
(* every group's reuse list names an existing slot whose reuse_from is the *)
(* group's primary, and every slot with reuse_from set is listed in the    *)
(* reuse list of the group of that primary.                                *)
(***************************************************************************)
C1_RelationAgrees ==
    /\ \A g \in Groups(plan) : \A key \in Targets(g) :
          HasSlot(plan, key) /\ SlotOf(plan, key).reuse_from = PrimaryKey(g)
    /\ \A i \in 1..Len(plan.slots) :
          plan.slots[i].reuse_from # None =>
             \E g \in GroupsOf(plan, plan.slots[i].reuse_from) :
                SlotKey(plan.slots[i]) \in Targets(g)

(***************************************************************************)
(* C2: the reuse-slot sets of all groups are pairwise disjoint and no      *)
(* reuse target of any group is the primary key of any group.              *)
(***************************************************************************)
C2_GroupsDisjoint ==
    /\ \A i, j \in 1..Len(plan.multi_day_groups) :
          i # j => Targets(plan.multi_day_groups[i]) \cap Targets(plan.multi_day_groups[j]) = {}
    /\ \A g, h \in Groups(plan) : PrimaryKey(h) \notin Targets(g)

(***************************************************************************)
(* C3: set_multi_day(P, R) on a plan that holds P returns True, leaves P   *)
(* with reuse_from = None and prep_days = 1 + |R|, every slot of R with    *)
(* reuse_from = P, no candidates and prep_days = 1, and exactly one group  *)
(* of primary P, whose reuse list is R.                                    *)
(***************************************************************************)
C3_SetMultiDayPost ==
    (last.op = "set_multi_day" /\ HasSlot(pre, last.key)) =>
       /\ last.status = 200
       /\ SlotOf(plan, last.key).reuse_from = None
       /\ SlotOf(plan, last.key).prep_days = 1 + Len(last.reuse)
       /\ \A n \in 1..Len(last.reuse) :
             HasSlot(plan, last.reuse[n]) =>
                /\ SlotOf(plan, last.reuse[n]).reuse_from = last.key
                /\ SlotOf(plan, last.reuse[n]).recommendations = <<>>
                /\ SlotOf(plan, last.reuse[n]).prep_days = 1
       /\ Cardinality({i \in 1..Len(plan.multi_day_groups) :
                          PrimaryKey(plan.multi_day_groups[i]) = last.key}) = 1
       /\ \A g \in GroupsOf(plan, last.key) : g.reuse_slots = last.reuse

\* a reuse list without the entries naming key
Without(reuse, key) == SelectSeq(reuse, LAMBDA k : k # key)

P0 == AllSlotKeys[1]

R1 == AllSlotKeys[2]

R2 == AllSlotKeys[3]

(***************************************************************************)
(* C4: clear_multi_day(key) on a reuse slot of P succeeds, returns only    *)
(* that slot to standalone, lowers P.prep_days by one but not below 1,     *)
(* drops the slot from P's group and deletes the group when its reuse list *)
(* becomes empty; every other slot keeps its reuse_from and every other    *)
(* group is kept as it was.                                                *)
(***************************************************************************)
C4_ClearReuseSlot ==
    (/\ last.op = "clear_multi_day"
     /\ HasSlot(pre, last.key)
     /\ SlotOf(pre, last.key).reuse_from # None) =>
       LET key == last.key
           pk == SlotOf(pre, last.key).reuse_from
       IN /\ last.status = 200
          /\ SlotOf(plan, key).reuse_from = None
          /\ HasSlot(pre, pk)
          /\ SlotOf(plan, pk).prep_days =
                IF SlotOf(pre, pk).prep_days > 1 THEN SlotOf(pre, pk).prep_days - 1 ELSE 1
          /\ Len(plan.slots) = Len(pre.slots)
          /\ \A i \in 1..Len(pre.slots) :
                SlotKey(pre.slots[i]) # key => plan.slots[i].reuse_from = pre.slots[i].reuse_from
          /\ \A h \in Groups(pre) : PrimaryKey(h) # pk => h \in Groups(plan)
          /\ \A g \in Groups(plan) : PrimaryKey(g) # pk => g \in Groups(pre)
          /\ \A h \in GroupsOf(pre, pk) :
                IF Without(h.reuse_slots, key) = <<>>
                THEN GroupsOf(plan, pk) = {}
                ELSE GroupsOf(plan, pk) = {[h EXCEPT !.reuse_slots = Without(h.reuse_slots, key)]}
          /\ (GroupsOf(pre, pk) = {} => GroupsOf(plan, pk) = {})

\* set_multi_day(P, [R1, R2]) then clear_multi_day(R1): P.prep_days = 2,
\* R1 standalone, R2 still a reuse slot of P
C4_Witness ==
    /\ Did("clear_multi_day")
    /\ last.key = R1
    /\ SlotOf(pre, R1).reuse_from = P0
    /\ SlotOf(pre, R2).reuse_from = P0
    /\ SlotOf(pre, P0).prep_days = 3
    /\ SlotOf(plan, P0).prep_days = 2
    /\ SlotOf(plan, R1).reuse_from = None
    /\ SlotOf(plan, R2).reuse_from = P0
    /\ plan.multi_day_groups = <<MultiDayGroup(P0, <<R2>>)>>

(***************************************************************************)
(* C5: clear_multi_day(key) on the primary of a group succeeds, returns    *)
(* every reuse slot of the group to standalone, resets the primary's       *)
(* prep_days to 1 and removes the group; the other groups and the other    *)
(* slots are left as they were.                                            *)
(***************************************************************************)
C5_ClearPrimary ==
    (/\ last.op = "clear_multi_day"
     /\ HasSlot(pre, last.key)
     /\ GroupsOf(pre, last.key) # {}) =>
       LET key == last.key
           freed == UNION {Targets(g) : g \in GroupsOf(pre, key)}
       IN /\ last.status = 200
          /\ \A k \in freed : HasSlot(plan, k) => SlotOf(plan, k).reuse_from = None
          /\ SlotOf(plan, key).prep_days = 1
          /\ GroupsOf(plan, key) = {}
          /\ \A h \in Groups(pre) : PrimaryKey(h) # key => h \in Groups(plan)
          /\ \A i \in 1..Len(pre.slots) :
                SlotKey(pre.slots[i]) \notin (freed \cup {key}) => plan.slots[i] = pre.slots[i]

(***************************************************************************)
(* C6: get_recipe_for_slot(key) returns, for a slot with reuse_from = P,   *)
(* the recipe selected in slot P at that moment, for any other slot the    *)
(* slot's own selected recipe, and none for an unknown slot.               *)
(***************************************************************************)
\* the candidate the slot's selected_index points at, none when it points at none
CurrentSelection(s) ==
    IF s.selected_index >= 0 /\ s.selected_index < Len(s.recommendations)
    THEN s.recommendations[s.selected_index + 1]
    ELSE NoRecipe

C6_RecipeFollowsPrimary ==
    \A key \in ArgKeys :
       get_recipe_for_slot(plan, key) =
          IF ~HasSlot(plan, key) THEN NoRecipe
          ELSE IF SlotOf(plan, key).reuse_from # None
               THEN IF HasSlot(plan, SlotOf(plan, key).reuse_from)
                    THEN CurrentSelection(SlotOf(plan, SlotOf(plan, key).reuse_from))
                    ELSE NoRecipe
          ELSE CurrentSelection(SlotOf(plan, key))

\* the selection of a primary was changed and its reuse slot resolves to the new recipe
C6_Witness ==
    /\ Did("select")
    /\ last.index = 1
    /\ \E key \in PlanKeys :
          /\ key # last.key
          /\ SlotOf(plan, key).reuse_from = last.key
          /\ get_recipe_for_slot(pre, key) = Favorite(1)
          /\ get_recipe_for_slot(plan, key) = Favorite(2)

(***************************************************************************)
(* C7: a slot whose reuse_from is set has no candidates of its own and its *)
(* own selected_recipe is none; select-by-URL on such a slot is rejected   *)
(* and changes neither the plan object nor the persisted plan.             *)
(***************************************************************************)
C7_ReuseSlotHasNoCandidates ==
    /\ \A i \in 1..Len(plan.slots) :
          plan.slots[i].reuse_from # None =>
             /\ plan.slots[i].recommendations = <<>>
             /\ selected_recipe(plan.slots[i]) = NoRecipe
    /\ (/\ last.op = "select_url"
        /\ HasSlot(pre, last.key)
        /\ SlotOf(pre, last.key).reuse_from # None) =>
           (last.status # 200 /\ Untouched)

\* a scrapeable URL was offered to a reuse slot and refused
C7_Witness ==
    /\ last.op = "select_url"
    /\ last.url = "http://new/1"
    /\ last.status = 422
    /\ HasSlot(pre, last.key)
    /\ SlotOf(pre, last.key).reuse_from # None
    /\ SlotOf(plan, last.key).recommendations = <<>>

(***************************************************************************)
(* C8: a set multi-day request with a malformed group (empty reuse list,   *)
(* reuse target equal to the primary, reuse target that already is a reuse *)
(* target of another group) reports failure and leaves the plan object and *)
(* the persisted plan unchanged.                                           *)
(***************************************************************************)
Malformed(p, pk, reuse) ==
    \/ reuse = <<>>
    \/ InSeq(pk, reuse)
    \/ \E g \in Groups(p) : PrimaryKey(g) # pk /\ \E n \in 1..Len(reuse) : reuse[n] \in Targets(g)

C8_MalformedRejected ==
    (last.op = "set_multi_day" /\ Malformed(pre, last.key, last.reuse)) =>
       (last.status # 200 /\ Untouched)

(***************************************************************************)
(* C9: set_multi_day and clear_multi_day are all-or-nothing: a call that   *)
(* reports success has updated every named reuse slot and the group list,  *)
(* a call that names a slot the plan does not hold fails, and a failed     *)
(* call changes no slot and no group.                                      *)
(***************************************************************************)
C9_AllOrNothing ==
    /\ last.op = "set_multi_day" =>
          IF last.status = 200
          THEN /\ \A n \in 1..Len(last.reuse) :
                     /\ HasSlot(plan, last.reuse[n])
                     /\ SlotOf(plan, last.reuse[n]).reuse_from = last.key
               /\ \E g \in GroupsOf(plan, last.key) : g.reuse_slots = last.reuse
          ELSE Untouched
    /\ last.op = "clear_multi_day" =>
          IF last.status = 200 THEN HasSlot(pre, last.key) ELSE Untouched

(***************************************************************************)
(* C10: serialising a plan and deserialising it again reproduces the plan: *)
(* to_dict/from_dict, to_json/from_json and save/load give back every      *)
(* field of the plan, its groups and its slots.                            *)
(***************************************************************************)
C10_RoundTripLossless ==
    /\ from_dict(to_dict(plan)) = plan
    /\ from_json(to_json(plan)) = plan
    /\ load_weekly_plan(save_weekly_plan(plan)) = plan
    /\ Persisted = plan

\* set_multi_day(P, [R1, R2]), saved and loaded: prep_days(P) = 3 and
\* reuse_from(R1) = reuse_from(R2) = P
C10_Witness ==
    /\ Did("set_multi_day")
    /\ last.key = P0
    /\ last.reuse = <<R1, R2>>
    /\ SlotOf(Persisted, P0).prep_days = 3
    /\ SlotOf(Persisted, R1).reuse_from = P0
    /\ SlotOf(Persisted, R2).reuse_from = P0
    /\ Persisted.multi_day_groups = <<MultiDayGroup(P0, <<R1, R2>>)>>

(***************************************************************************)
(* C11: selecting a candidate succeeds exactly when the slot exists and    *)
(* the index is -1 or 0 <= index < number of candidates, and then only     *)
(* that slot's selected_index changes; a request with an unknown weekday   *)
(* or slot name or an out-of-range index is rejected and leaves the plan   *)
(* object and the persisted plan as they were.  Stated for                 *)
(* WeeklyRecommendation.select_recipe and, for the requests the endpoint   *)
(* lets through, for POST /select.                                         *)
(***************************************************************************)
ValidIndex(p, key, index) ==
    HasSlot(p, key) /\ (index = -1 \/ (0 <= index /\ index < Len(SlotOf(p, key).recommendations)))

\* the plan differs from p in the selected_index of the slot of key only
OnlySelectionChanged(p, q, key, index) ==
    /\ HasSlot(p, key)
    /\ q = [p EXCEPT !.slots[get_slot(p, key)].selected_index = index]

C12_ExposedSelectAccepts ==
    (last.op = "router_select" /\ ValidIndex(pre, last.key, last.index)) =>
       /\ last.status = 200
       /\ SlotOf(Persisted, last.key).selected_index = last.index

(***************************************************************************)
(* C13: for a slot whose selected_index is -1, selected_recipe is none,    *)
(* the shopping list aggregates nothing for the slot, completing the plan  *)
(* writes no meal for it, and the next-meal sensor reports no planned meal *)
(* for it rather than one of its candidates.                               *)
(***************************************************************************)
C13_NoMealExcluded ==
    \A i \in 1..Len(plan.slots) :
       plan.slots[i].selected_index = -1 =>
          /\ selected_recipe(plan.slots[i]) = NoRecipe
          /\ \A n \in 1..Len(generate_shopping_list(plan)) :
                generate_shopping_list(plan)[n].key # SlotKey(plan.slots[i])
          /\ \A n \in 1..Len(_build_meal_plan(plan)) :
                _build_meal_plan(plan)[n].key # SlotKey(plan.slots[i])
          /\ native_value(_convert_to_response(plan, i)) = NoRecipe

(***************************************************************************)
(* C14: read-then-mutate-then-write sequences on the persisted plan never  *)
(* interleave: once all concurrent requests have returned, the persisted   *)
(* plan is the result of running them one after the other in some order    *)
(* (no accepted update lost, no deleted plan written back).                *)
(***************************************************************************)
C14_Serializable ==
    (inflight # <<>> /\ \A i \in DOMAIN inflight : inflight[i].pc = "done")
    => file \in SerialResults(save_weekly_plan(GeneratedPlan), inflight, DOMAIN inflight)

(***************************************************************************)
(* C15: one current plan: a generation that finishes leaves exactly the    *)
(* plan it generated, nothing of the plan it replaces merged in; once the  *)
(* plan is deleted only a generation brings a plan back, and GET answers   *)
(* not-found exactly when there is no plan; DELETE answers 204, removes    *)
(* the plan it saw and changes nothing when there is none.                 *)
(***************************************************************************)
C15_OneCurrentPlan ==
    [][/\ StepOf("generate") =>
            \E n \in 1..Len(Timestamps) :
                file' = save_weekly_plan(run_search_agent("", "", favorites_raw,
                                                          new_recipes_raw, Timestamps[n]))
       /\ (file = NoFile /\ file' # NoFile) => StepOf("generate")
       /\ StepOf("get") => (last'.status = IF pre' = NoPlan THEN 404 ELSE 200)
       /\ StepOf("delete") =>
            /\ last'.status = 204
            /\ pre' # NoPlan => file' = NoFile
            /\ pre' = NoPlan => file' = file]_vars

(***************************************************************************)
(* Vocabulary of the generation properties.                                *)
(***************************************************************************)
\* the slots of p whose top candidate is a favourite / a new recipe
FavoriteTops(p) ==
    {i \in 1..Len(p.slots) : top_recipe(p.slots[i]) # NoRecipe /\ ~top_recipe(p.slots[i]).is_new}

NewTops(p) ==
    {i \in 1..Len(p.slots) : top_recipe(p.slots[i]) # NoRecipe /\ top_recipe(p.slots[i]).is_new}

\* the numbers of viable favourites and of viable new recipes of the generation
ViableFavorites == Len(_score_favorites(favorites_raw))

ViableNew == Len(_load_recipe_details(new_recipes_raw))

Min(a, b) == IF a <= b THEN a ELSE b

Generated == last.op = "generate"

(***************************************************************************)
(* C16: a generated full-week plan holds exactly one SlotRecommendation    *)
(* for each of the 14 (weekday, slot) pairs, favorites_count is the number *)
(* of slots whose top candidate is a favourite, new_count the number of    *)
(* slots whose top candidate is a new recipe, and the two add up to 14.    *)
(***************************************************************************)
C16_CountersMatchTops ==
    Generated =>
       /\ Len(plan.slots) = 14
       /\ \A i \in 1..14 : SlotKey(plan.slots[i]) = AllSlotKeys[i]
       /\ plan.favorites_count = Cardinality(FavoriteTops(plan))
       /\ plan.new_count = Cardinality(NewTops(plan))
       /\ plan.favorites_count + plan.new_count = 14

(***************************************************************************)
(* C17: in a generated full-week plan the number of slots whose top        *)
(* candidate is a favourite is within one slot of 8, and it is 0 only when *)
(* there are no viable favourites.                                         *)
(***************************************************************************)
C17_FavoritesNearTarget ==
    Generated =>
       /\ Cardinality(FavoriteTops(plan)) \in 7..9
       /\ (Cardinality(FavoriteTops(plan)) = 0 => ViableFavorites = 0)

(***************************************************************************)
(* C17 as amended: the number of slots whose top candidate is a favourite  *)
(* is at least min(8, F) for F viable favourites; it is exactly min(8, F), *)
(* hence within one slot of 8 when F >= 7, whenever the viable new recipes *)
(* suffice for the remaining 14 - min(8, F) slots; and it is 0 only when   *)
(* F = 0.                                                                  *)
(***************************************************************************)
C17_FavoritesUpToTarget ==
    Generated =>
       LET T == Cardinality(FavoriteTops(plan))
           first == Min(8, ViableFavorites)
       IN /\ T >= first
          /\ (ViableNew >= 14 - first => T = first)
          /\ ((ViableFavorites >= 7 /\ ViableNew >= 14 - first) => T \in 7..9)
          /\ (T = 0 => ViableFavorites = 0)

\* a generation with 8 or more viable favourites and enough new recipes: 8 and 6
C17_Witness ==
    /\ Generated
    /\ ViableFavorites >= 8
    /\ ViableNew >= 6
    /\ Cardinality(FavoriteTops(plan)) = 8
    /\ Cardinality(NewTops(plan)) = 6

(***************************************************************************)
(* C18: in a generated plan no favourite (by recipe id) and no new recipe  *)
(* (by URL) is the top candidate of two different slots, also when the     *)
(* second pass backfills with favourites.                                  *)
(***************************************************************************)
C18_TopsUnique ==
    Generated =>
       \A i, j \in 1..Len(plan.slots) :
          (i # j /\ top_recipe(plan.slots[i]) # NoRecipe /\ top_recipe(plan.slots[j]) # NoRecipe) =>
             /\ (~top_recipe(plan.slots[i]).is_new /\ ~top_recipe(plan.slots[j]).is_new) =>
                   top_recipe(plan.slots[i]).recipe_id # top_recipe(plan.slots[j]).recipe_id
             /\ (top_recipe(plan.slots[i]).is_new /\ top_recipe(plan.slots[j]).is_new) =>
                   top_recipe(plan.slots[i]).url # top_recipe(plan.slots[j]).url

(***************************************************************************)
(* C19: in every reachable plan each slot holds at most 5 candidates and   *)
(* its selected_index is -1 or a valid index into its candidate list.      *)
(***************************************************************************)
C19_CandidatesBounded ==
    plan # NoPlan =>
       \A i \in 1..Len(plan.slots) :
          /\ Len(plan.slots[i].recommendations) <= RECOMMENDATIONS_PER_SLOT
          /\ \/ plan.slots[i].selected_index = -1
             \/ /\ 0 <= plan.slots[i].selected_index
                /\ plan.slots[i].selected_index < Len(plan.slots[i].recommendations)

(***************************************************************************)
(* C20: a recipe whose id is blacklisted (one star) is never a candidate   *)
(* of any slot of the current plan, whether the candidates come from the   *)
(* generation or from adding a custom recipe by URL.                       *)
(***************************************************************************)
C20_NoBlacklistedCandidate ==
    plan # NoPlan =>
       \A i \in 1..Len(plan.slots) : \A n \in 1..Len(plan.slots[i].recommendations) :
          plan.slots[i].recommendations[n].recipe_id \notin get_blacklisted_recipe_ids

(***************************************************************************)
(* Scoring.  Scores are floats with one decimal place in the code; here a  *)
(* total score is an integer number of tenths of a point, the sub-scores   *)
(* are whole points, the weights and rating multipliers are percentages.   *)
(***************************************************************************)
MaxCookCount == 6

WEIGHT_INGREDIENT_AFFINITY == 40

WEIGHT_TIME_COMPATIBILITY == 25

WEIGHT_BIOLAND_AVAILABILITY == 20

WEIGHT_SEASONALITY == 15

\* no user rating for the recipe
NoRating == 0

\* RATING_MULTIPLIERS in percent
RATING_MULTIPLIERS(user_rating) ==
    CASE user_rating = 1 -> 0
      [] user_rating = 2 -> 85
      [] user_rating = 3 -> 100
      [] user_rating = 4 -> 110
      [] user_rating = 5 -> 120

\* round(x, 1) of x = n / d points, in tenths: the nearest tenth; when n / d lies
\* exactly between two tenths the float error of the sum decides which one
round_1(n, d) ==
    LET q == (10 * n) \div d
        rem == (10 * n) % d
    IN IF 2 * rem > d THEN {q + 1}
       ELSE IF 2 * rem < d THEN {q}
       ELSE {q, q + 1}

\* the sub-scores a recipe gets
SubScores == {0, 30, 50, 100}

\* total_score of calculate_score for these sub-scores and this rating of the recipe
calculate_score(ingredient_affinity, time_compatibility, bioland_availability, seasonality, user_rating) ==
    LET total_score == ingredient_affinity * WEIGHT_INGREDIENT_AFFINITY
                       + time_compatibility * WEIGHT_TIME_COMPATIBILITY
                       + bioland_availability * WEIGHT_BIOLAND_AVAILABILITY
                       + seasonality * WEIGHT_SEASONALITY
    IN IF user_rating # NoRating
       THEN round_1(total_score * RATING_MULTIPLIERS(user_rating), 10000)
       ELSE round_1(total_score * 100, 10000)

\* _score_favorites: the score stored on the ScoredRecipe of a favourite
adjusted_score(total_score, cook_count) ==
    LET cook_bonus == IF cook_count * 2 < 10 THEN cook_count * 2 ELSE 10
    IN IF total_score + cook_bonus * 10 < 1000 THEN total_score + cook_bonus * 10 ELSE 1000

ScoreInit ==
    /\ file = NoFile
    /\ plan = NoPlan
    /\ pre = NoPlan
    /\ last = Request("start", None, <<>>, 0, "", 0)
    /\ ops = 0
    /\ favorites_raw = <<>>
    /\ new_recipes_raw = <<>>
    /\ inflight = <<>>
    /\ \E ia \in SubScores, tc \in SubScores, ba \in SubScores, se \in SubScores,
          user_rating \in 0..5, cook_count \in 0..MaxCookCount :
          call = [fn |-> "start", ingredient_affinity |-> ia, time_compatibility |-> tc,
                  bioland_availability |-> ba, seasonality |-> se,
                  user_rating |-> user_rating, cook_count |-> cook_count,
                  total_score |-> 0, score |-> 0]

\* calculate_score(recipe, context)
CalculateScore ==
    /\ call.fn = "start"
    /\ \E total_score \in calculate_score(call.ingredient_affinity, call.time_compatibility,
                                          call.bioland_availability, call.seasonality,
                                          call.user_rating) :
          call' = [call EXCEPT !.fn = "calculate_score", !.total_score = total_score]
    /\ UNCHANGED <<file, plan, pre, last, ops, favorites_raw, new_recipes_raw, inflight>>

\* _score_favorites stores the score of a viable (not blacklisted) favourite
ScoreFavorite ==
    /\ call.fn = "calculate_score"
    /\ call.user_rating # 1
    /\ call' = [call EXCEPT !.fn = "_score_favorites",
                            !.score = adjusted_score(call.total_score, call.cook_count)]
    /\ UNCHANGED <<file, plan, pre, last, ops, favorites_raw, new_recipes_raw, inflight>>

\* _search_new_recipes and _load_recipe_details store the total score of a
\* recipe that has no id and hence no rating
ScoreNew ==
    /\ call.fn = "calculate_score"
    /\ call.user_rating = NoRating
    /\ call' = [call EXCEPT !.fn = "_load_recipe_details", !.score = call.total_score]
    /\ UNCHANGED <<file, plan, pre, last, ops, favorites_raw, new_recipes_raw, inflight>>

ScoreNext == CalculateScore \/ ScoreFavorite \/ ScoreNew

ScoreSpec == ScoreInit /\ [][ScoreNext]_vars

(***************************************************************************)
(* C21: for sub-scores in 0..100 and a rating of 2..5 stars or none, the   *)
(* total_score calculate_score returns lies in 0..100, and so does the     *)
(* score stored on a ScoredRecipe after the cook-count bonus.              *)
(***************************************************************************)
C21_ScoreInRange ==
    (call.fn \in {"calculate_score", "_score_favorites", "_load_recipe_details"}
     /\ call.user_rating # 1) =>
       /\ 0 <= call.total_score /\ call.total_score <= 1000
       /\ 0 <= call.score /\ call.score <= 1000

(***************************************************************************)
(* Viability filter.  Strings are the strings of the code; the substring   *)
(* test and lower() are tabulated for the strings the model uses.          *)
(***************************************************************************)
MaxIngredients == 3

\* base ingredients of recipes, names in the shop set, recipe titles, months
IngredientNames == {"tomate", "spargel", "reis", "hokkaido"}

ShopNames == {"Tomaten", "eis", "spargel"}

Titles == {"Spargelrisotto", "Kürbissuppe", "Tomatensalat"}

Months == {5, 9}

\* the pairs (a, b) of different strings of the model with a in b (a is a substring of b)
SubstringPairs ==
    {<<"champignon", "steinchampignon">>, <<"eier", "eierfrucht">>,
     <<"eier", "eierschwammerl">>, <<"eis", "eisbergsalat">>, <<"eis", "reis">>,
     <<"erdbeer", "erdbeere">>, <<"kartoffel", "kartoffeln">>,
     <<"koriander", "koriandergrün">>, <<"kraut", "blaukraut">>,
     <<"kraut", "rotkraut">>, <<"kraut", "weißkraut">>, <<"kürbis", "kürbissuppe">>,
     <<"lauch", "schnittlauch">>, <<"paprika", "paprikaschote">>, <<"pilz", "pilze">>,
     <<"salat", "eisbergsalat">>, <<"salat", "tomatensalat">>,
     <<"spargel", "spargelrisotto">>, <<"tomate", "tomaten">>,
     <<"tomate", "tomatensalat">>, <<"tomaten", "tomatensalat">>}

\* a in b of Python, for the strings of the model
In(a, b) == a = b \/ <<a, b>> \in SubstringPairs

\* str.lower()
lower(s) ==
    CASE s = "Tomaten" -> "tomaten"
      [] s = "Spargelrisotto" -> "spargelrisotto"
      [] s = "Kürbissuppe" -> "kürbissuppe"
      [] s = "Tomatensalat" -> "tomatensalat"
      [] s = "EL" -> "el"
      [] s = "Eier" -> "eier"
      [] s = "Salz" -> "salz"
      [] s = "Möhre" -> "möhre"
      [] s = "Karotte" -> "karotte"
      [] s = "Orange" -> "orange"
      [] OTHER -> s

\* the keys of SEASONAL_CALENDAR among the strings of the model
CalendarKeys == {"tomate", "spargel", "hokkaido", "kürbis", "butternut", "erdbeere",
                 "kartoffel", "champignon", "pfifferling"}

SEASONAL_CALENDAR(ingredient) ==
    CASE ingredient = "spargel" -> {4, 5, 6}
      [] ingredient = "tomate" -> {7, 8, 9, 10}
      [] ingredient \in {"kürbis", "hokkaido", "butternut"} -> {9, 10, 11, 12}
      [] ingredient = "erdbeere" -> {5, 6, 7}
      [] ingredient = "pfifferling" -> {6, 7, 8, 9, 10}
      [] ingredient \in {"kartoffel", "champignon"} -> 1..12

\* is_in_season: "None" when the ingredient is not in the calendar
is_in_season(ingredient, month) ==
    IF lower(ingredient) \notin CalendarKeys THEN "None"
    ELSE IF month \in SEASONAL_CALENDAR(lower(ingredient)) THEN "True"
    ELSE "False"

is_ingredient_obtainable_ShopOnly(ingredient, available_ingredients, month) ==
    LET ing_lower == lower(ingredient)
        available_lower == {lower(i) : i \in available_ingredients}
    IN IF ing_lower \in available_lower THEN TRUE
       ELSE \E avail \in available_lower : In(ing_lower, avail) \/ In(avail, ing_lower)

is_ingredient_obtainable(ingredient, available_ingredients, month) ==
    LET ing_lower == lower(ingredient)
        available_lower == {lower(i) : i \in available_ingredients}
    IN IF ing_lower \in available_lower THEN TRUE
       ELSE IF \E avail \in available_lower : In(ing_lower, avail) \/ In(avail, ing_lower)
       THEN TRUE
       ELSE IF is_in_season(ing_lower, month) = "None" THEN TRUE
       ELSE is_in_season(ing_lower, month) = "True"

RECURSIVE get_unobtainable_ingredients(_, _, _)
get_unobtainable_ingredients(recipe_ingredients, available_ingredients, month) ==
    IF recipe_ingredients = <<>> THEN <<>>
    ELSE LET ing == Head(recipe_ingredients)
             rest == get_unobtainable_ingredients(Tail(recipe_ingredients),
                                                  available_ingredients, month)
         IN IF ~is_ingredient_obtainable(ing, available_ingredients, month)
            THEN <<lower(ing)>> \o rest
            ELSE rest

\* the table of German variations in _is_key_ingredient
variations ==
    <<[base |-> "spargel", vars |-> {"spargel"}],
      [base |-> "tomate", vars |-> {"tomate", "tomaten"}],
      [base |-> "kartoffel", vars |-> {"kartoffel", "kartoffeln"}],
      [base |-> "kürbis", vars |-> {"kürbis", "hokkaido", "butternut"}],
      [base |-> "erdbeere", vars |-> {"erdbeere", "erdbeer"}],
      [base |-> "pilz", vars |-> {"pilz", "pilze", "champignon", "pfifferling"}],
      [base |-> "lachs", vars |-> {"lachs"}],
      [base |-> "hähnchen", vars |-> {"hähnchen", "huhn", "hühnchen", "chicken"}],
      [base |-> "rind", vars |-> {"rind", "beef", "steak"}],
      [base |-> "schwein", vars |-> {"schwein", "pork", "schnitzel"}]>>

_is_key_ingredient(ingredient, recipe_title) ==
    LET ing_lower == lower(ingredient)
        title_lower == lower(recipe_title)
    IN IF In(ing_lower, title_lower) THEN TRUE
       ELSE \E n \in 1..Len(variations) :
               /\ ing_lower = variations[n].base
                  \/ \E v \in variations[n].vars : In(v, ing_lower)
               /\ \E v \in variations[n].vars : In(v, title_lower)

MIN_OBTAINABLE_RATIO_PERCENT == 50

\* is_recipe_viable(recipe, context) for a recipe with these base ingredients:
\* is_viable and the list of unobtainable ingredients
is_recipe_viable_tuple(recipe_id, title, recipe_ingredients, available_ingredients, month, blacklisted_ids) ==
    IF recipe_id # 0 /\ recipe_id \in blacklisted_ids
    THEN [is_viable |-> FALSE, unobtainable |-> <<"Vom User ausgeschlossen (1 Stern)">>]
    ELSE IF recipe_ingredients = <<>>
    THEN [is_viable |-> TRUE, unobtainable |-> <<>>]
    ELSE LET unobtainable == get_unobtainable_ingredients(recipe_ingredients,
                                                          available_ingredients, month)
             obtainable_count == Len(recipe_ingredients) - Len(unobtainable)
             key_ingredient_missing ==
                \E n \in 1..Len(unobtainable) : _is_key_ingredient(unobtainable[n], title)
         IN [is_viable |-> /\ ~key_ingredient_missing
                           /\ obtainable_count * 100
                                 >= MIN_OBTAINABLE_RATIO_PERCENT * Len(recipe_ingredients),
             unobtainable |-> unobtainable]

ViableInit ==
    /\ file = NoFile
    /\ plan = NoPlan
    /\ pre = NoPlan
    /\ last = Request("start", None, <<>>, 0, "", 0)
    /\ ops = 0
    /\ favorites_raw = <<>>
    /\ new_recipes_raw = <<>>
    /\ inflight = <<>>
    /\ \E recipe_id \in {0, 1, 3}, title \in Titles, n \in 0..MaxIngredients,
          available_ingredients \in SUBSET ShopNames, month \in Months :
          \E recipe_ingredients \in [1..n -> IngredientNames] :
             call = [fn |-> "start", recipe_id |-> recipe_id, title |-> title,
                     recipe_ingredients |-> recipe_ingredients,
                     available_ingredients |-> available_ingredients, month |-> month,
                     is_viable |-> FALSE, unobtainable |-> <<>>]

IsRecipeViable ==
    /\ call.fn = "start"
    /\ LET r == is_recipe_viable_tuple(call.recipe_id, call.title, call.recipe_ingredients,
                                       call.available_ingredients, call.month,
                                       get_blacklisted_recipe_ids)
       IN call' = [call EXCEPT !.fn = "is_recipe_viable", !.is_viable = r.is_viable,
                               !.unobtainable = r.unobtainable]
    /\ UNCHANGED <<file, plan, pre, last, ops, favorites_raw, new_recipes_raw, inflight>>

ViableNext == IsRecipeViable

ViableSpec == ViableInit /\ [][ViableNext]_vars

\* the ingredient matches the shop set (exactly or as a substring either way), or
\* is in season in the month, or is absent from the seasonal calendar
Obtainable(ingredient, available_ingredients, month) ==
    \/ \E avail \in available_ingredients :
          \/ lower(avail) = ingredient
          \/ <<ingredient, lower(avail)>> \in SubstringPairs
          \/ <<lower(avail), ingredient>> \in SubstringPairs
    \/ ingredient \notin CalendarKeys
    \/ month \in SEASONAL_CALENDAR(ingredient)

(***************************************************************************)
(* C22: is_recipe_viable answers viable exactly when the recipe is not     *)
(* blacklisted, no unobtainable base ingredient is a key ingredient of the *)
(* title, and at least half of the base ingredients are obtainable; a      *)
(* recipe without ingredients that is not blacklisted is viable.           *)
(***************************************************************************)
C22_ViableExactly ==
    call.fn = "is_recipe_viable" =>
       LET ings == call.recipe_ingredients
           ok(n) == Obtainable(ings[n], call.available_ingredients, call.month)
           obtainable == {n \in 1..Len(ings) : ok(n)}
       IN /\ call.is_viable <=>
                /\ call.recipe_id \notin get_blacklisted_recipe_ids
                /\ \A n \in 1..Len(ings) : ~ok(n) => ~_is_key_ingredient(ings[n], call.title)
                /\ 2 * Cardinality(obtainable) >= Len(ings)
          /\ (ings = <<>> /\ call.recipe_id \notin get_blacklisted_recipe_ids) => call.is_viable

\* a recipe whose key ingredient is out of season and not in the shop is rejected
\* although two of its three ingredients are obtainable
C22_Witness ==
    /\ call.fn = "is_recipe_viable"
    /\ call.recipe_id = 1
    /\ call.title = "Spargelrisotto"
    /\ call.recipe_ingredients = <<"spargel", "reis", "tomate">>
    /\ call.available_ingredients = {"Tomaten"}
    /\ call.month = 9
    /\ call.unobtainable = <<"spargel">>
    /\ ~call.is_viable

(***************************************************************************)
(* Shopping list.  Amounts are floats in the code; an aggregated amount is *)
(* an integer number of quarters here (the servings of the model divide 4, *)
(* so every scaled amount is a whole number of quarters), a rounded amount *)
(* an integer number of tenths.                                            *)
(***************************************************************************)
MaxHousehold == 2

AmountDenominator == 4

\* no unit (None), no amount (None)
NoUnit == ""

NoAmount == -1

\* a ScoredRecipe with the fields the shopping list reads; servings 0 is None
ShopRecipe(id, u, servings, ingredients) ==
    [recipe_id |-> id, url |-> u, is_new |-> id = 0, score |-> 50,
     servings |-> servings, ingredients |-> ingredients]

\* the candidates of the slots: two recipes of the store (4 servings, servings
\* unknown) and a new recipe with raw ingredient strings
ShopCandidates ==
    <<ShopRecipe(1, "http://fav/1", 4, <<>>),
      ShopRecipe(2, "http://fav/2", 0, <<>>),
      ShopRecipe(0, "http://new/1", 2, <<"Eier", "Salz">>)>>

\* the rows of parsed_ingredients; amount 0 is no amount
_get_parsed_ingredients_for_recipe(recipe_id) ==
    IF recipe_id = 1
    THEN <<[amount |-> 200, unit |-> "g", ingredient |-> "reis"],
           [amount |-> 2, unit |-> NoUnit, ingredient |-> "eier"]>>
    ELSE IF recipe_id = 2
    THEN <<[amount |-> 100, unit |-> "gramm", ingredient |-> "reis"],
           [amount |-> 1, unit |-> "EL", ingredient |-> "öl"],
           [amount |-> 0, unit |-> NoUnit, ingredient |-> "pfeffer"]>>
    ELSE <<>>

_normalize_unit(unit) ==
    IF unit = NoUnit THEN NoUnit
    ELSE LET u == lower(unit)
         IN CASE u = "g" -> "gramm"
              [] u = "kg" -> "kilogramm"
              [] u = "ml" -> "milliliter"
              [] u = "l" -> "liter"
              [] u = "el" -> "esslöffel"
              [] u = "tl" -> "teelöffel"
              [] u = "essl." -> "esslöffel"
              [] u = "teel." -> "teelöffel"
              [] u = "msp." -> "messerspitze"
              [] u = "stk" -> "stück"
              [] u = "zehen" -> "zehe"
              [] u = "scheiben" -> "scheibe"
              [] OTHER -> u

\* round(n / d) of Python: the nearest integer, a tie goes to the even one
RoundHalfEven(n, d) ==
    LET q == n \div d
        rem == n % d
    IN IF 2 * rem > d THEN q + 1
       ELSE IF 2 * rem < d THEN q
       ELSE IF q % 2 = 0 THEN q ELSE q + 1

\* round_amount(n / d, unit), in tenths.  round(amount, 1) of an amount that
\* lies exactly between two tenths and is no binary fraction goes where the
\* float nearest to the amount lies: either way.
round_amount_AllTens(n, d, unit) ==
    {RoundHalfEven(n, 10 * d) * 100}

round_amount(n, d, unit) ==
    IF unit \in {"gramm", "milliliter"} THEN {RoundHalfEven(n, 10 * d) * 100}
    ELSE IF unit \in {"stück", "scheibe"}
    THEN {IF RoundHalfEven(n, d) > 1 THEN RoundHalfEven(n, d) * 10 ELSE 10}
    ELSE IF unit \in {"esslöffel", "teelöffel"} THEN {RoundHalfEven(2 * n, d) * 5}
    ELSE IF (20 * n) % d = 0 /\ ((20 * n) \div d) % 2 = 1 /\ (4 * n) % d # 0
    THEN {(10 * n) \div d, (10 * n) \div d + 1}
    ELSE {RoundHalfEven(10 * n, d)}

\* total_factor = household_size / (recipe.servings or 2) * prep_days, in quarters
total_factor(household_size, recipe, prep_days) ==
    LET recipe_servings == IF recipe.servings = 0 THEN 2 ELSE recipe.servings
    IN household_size * (AmountDenominator \div recipe_servings) * prep_days

\* the position of a key in the aggregated dict, 0 when it is absent
KeyIndex(aggregated, key) ==
    IF \E n \in 1..Len(aggregated) : aggregated[n].key = key
    THEN CHOOSE n \in 1..Len(aggregated) : aggregated[n].key = key
    ELSE 0

\* aggregated[key] of the defaultdict: a missing key is inserted
Touched_AlwaysInsert(aggregated, key) ==
    Append(aggregated, [key |-> key, amount |-> 0, recipes |-> <<>>, has_amount |-> FALSE])

Touched(aggregated, key) ==
    IF KeyIndex(aggregated, key) # 0 THEN aggregated
    ELSE Append(aggregated, [key |-> key, amount |-> 0, recipes |-> <<>>, has_amount |-> FALSE])

\* the label is appended to the recipes of the key unless it is there
WithLabel(aggregated, key, label) ==
    LET n == KeyIndex(aggregated, key)
    IN IF InSeq(label, aggregated[n].recipes) THEN aggregated
       ELSE [aggregated EXCEPT ![n].recipes = Append(@, label)]

\* one row of parsed_ingredients of a recipe of the store
AddParsed(aggregated, ing, label, factor) ==
    LET key == <<ing.ingredient, _normalize_unit(ing.unit)>>
        a == Touched(aggregated, key)
        n == KeyIndex(a, key)
        b == IF ing.amount # 0
             THEN [a EXCEPT ![n].amount = @ + ing.amount * factor, ![n].has_amount = TRUE]
             ELSE a
    IN WithLabel(b, key, label)

\* one raw ingredient string of a recipe that is not in the store
AddRaw(aggregated, ing_str, label) ==
    LET key == <<lower(ing_str), NoUnit>>
        a == Touched(aggregated, key)
        n == KeyIndex(a, key)
    IN WithLabel([a EXCEPT ![n].has_amount = FALSE], key, label)

RECURSIVE AddAllParsed(_, _, _, _)
AddAllParsed(aggregated, parsed, label, factor) ==
    IF parsed = <<>> THEN aggregated
    ELSE AddAllParsed(AddParsed(aggregated, Head(parsed), label, factor),
                      Tail(parsed), label, factor)

RECURSIVE AddAllRaw(_, _, _)
AddAllRaw(aggregated, ingredients, label) ==
    IF ingredients = <<>> THEN aggregated
    ELSE AddAllRaw(AddRaw(aggregated, Head(ingredients), label),
                   Tail(ingredients), label)

\* the loop over the slots whose recipe is aggregated, from entry i on
RECURSIVE Aggregate(_, _, _, _)
Aggregate(entries, household_size, i, aggregated) ==
    IF i > Len(entries) THEN aggregated
    ELSE LET e == entries[i]
             factor == total_factor(household_size, e.recipe, e.factor)
         IN Aggregate(entries, household_size, i + 1,
                      IF e.recipe.recipe_id # 0
                      THEN AddAllParsed(aggregated,
                                        _get_parsed_ingredients_for_recipe(e.recipe.recipe_id),
                                        e.label, factor)
                      ELSE AddAllRaw(aggregated, e.recipe.ingredients, e.label))

\* the items of generate_shopping_list(plan, household_size), in dict order
shopping_items(p, household_size) ==
    LET aggregated == Aggregate(generate_shopping_list(p), household_size, 1, <<>>)
    IN [n \in 1..Len(aggregated) |->
          [ingredient |-> aggregated[n].key[1],
           unit |-> aggregated[n].key[2],
           amount |-> IF aggregated[n].has_amount
                      THEN CHOOSE r \in round_amount(aggregated[n].amount, AmountDenominator,
                                                     aggregated[n].key[2]) : TRUE
                      ELSE NoAmount,
           recipes |-> aggregated[n].recipes]]

\* a plan whose slots hold the three candidates with these selections, and at
\* most one multi-day group
ShopPlan(selection, pk, reuse) ==
    LET base == [GeneratedPlan EXCEPT
                   !.slots = [i \in 1..NumSlots |->
                                [SlotRecommendation(AllSlotKeys[i], ShopCandidates)
                                   EXCEPT !.selected_index = selection[i]]]]
        r == set_multi_day(base, pk, reuse)
    IN IF r[1] THEN r[2] ELSE base

ShopInit ==
    /\ file = NoFile
    /\ \E selection \in [1..NumSlots -> -1..2], pk \in PlanKeys, reuse \in ReuseLists :
          plan = ShopPlan(selection, pk, reuse)
    /\ pre = plan
    /\ last = Request("start", None, <<>>, 0, "", 0)
    /\ ops = 0
    /\ favorites_raw = <<>>
    /\ new_recipes_raw = <<>>
    /\ inflight = <<>>
    /\ \E household_size \in 1..MaxHousehold :
          call = [fn |-> "start", household_size |-> household_size, calls |-> 0,
                  items |-> <<>>, previous |-> <<>>]

\* generate_shopping_list(plan, household_size), called up to twice
GenerateShoppingList ==
    /\ call.calls < 2
    /\ call' = [call EXCEPT !.fn = "generate_shopping_list", !.calls = @ + 1,
                            !.items = shopping_items(plan, call.household_size),
                            !.previous = call.items]
    /\ UNCHANGED <<file, plan, pre, last, ops, favorites_raw, new_recipes_raw, inflight>>

ShopNext == GenerateShoppingList

ShopSpec == ShopInit /\ [][ShopNext]_vars

\* the scaled amounts the slots contribute, in quarters: one entry per row with an
\* amount of the recipe of every slot that is no reuse slot and has a selected recipe
Contributions(p, household_size) ==
    LET entries == generate_shopping_list(p)
        rows(i) == _get_parsed_ingredients_for_recipe(entries[i].recipe.recipe_id)
    IN {<<i, j>> \in (1..Len(entries)) \X (1..3) : j <= Len(rows(i)) /\ rows(i)[j].amount # 0}

RECURSIVE SumOf(_, _, _, _)
SumOf(p, household_size, key, S) ==
    IF S = {} THEN 0
    ELSE LET c == CHOOSE x \in S : TRUE
             e == generate_shopping_list(p)[c[1]]
             row == _get_parsed_ingredients_for_recipe(e.recipe.recipe_id)[c[2]]
         IN (IF <<row.ingredient, _normalize_unit(row.unit)>> = key
             THEN row.amount * total_factor(household_size, e.recipe, e.factor)
             ELSE 0)
            + SumOf(p, household_size, key, S \ {c})

(***************************************************************************)
(* C23: the shopping list counts each cooked batch once: for every         *)
(* (ingredient, normalized unit) key the amount of the item is the rounded *)
(* sum of amount x household_size / (servings or 2) x prep_days over the   *)
(* slots that are no reuse slot and have a selected recipe; reuse slots    *)
(* and slots without a selected recipe contribute nothing.                 *)
(***************************************************************************)
C23_BatchCountedOnce ==
    call.fn = "generate_shopping_list" =>
       LET C == Contributions(plan, call.household_size)
           entries == generate_shopping_list(plan)
           keyOf(c) == LET row == _get_parsed_ingredients_for_recipe(
                                     entries[c[1]].recipe.recipe_id)[c[2]]
                       IN <<row.ingredient, _normalize_unit(row.unit)>>
       IN /\ \A c \in C :
                \E n \in 1..Len(call.items) :
                   /\ <<call.items[n].ingredient, call.items[n].unit>> = keyOf(c)
                   /\ call.items[n].amount \in
                         round_amount(SumOf(plan, call.household_size, keyOf(c), C),
                                      AmountDenominator, keyOf(c)[2])
          /\ \A n \in 1..Len(call.items) :
                (call.items[n].amount # NoAmount) =>
                   \E c \in C : keyOf(c) = <<call.items[n].ingredient, call.items[n].unit>>
          /\ \A n \in 1..Len(call.items) : \A m \in 1..Len(call.items[n].recipes) :
                \E i \in 1..Len(entries) : entries[i].label = call.items[n].recipes[m]

MaxAmount == 3400

RoundDenominator == 20

\* the normalized units round_amount may be given, and no unit
RoundUnits ==
    {"gramm", "kilogramm", "milliliter", "liter", "stück", "scheibe",
     "esslöffel", "teelöffel", "prise", "bund", NoUnit}

RoundInit ==
    /\ file = NoFile
    /\ plan = None
    /\ pre = None
    /\ last = Request("start", None, <<>>, 0, "", 0)
    /\ ops = 0
    /\ favorites_raw = <<>>
    /\ new_recipes_raw = <<>>
    /\ inflight = <<>>
    /\ \E amount \in 1..MaxAmount, unit \in RoundUnits :
          call = [fn |-> "start", amount |-> amount, unit |-> unit, result |-> NoAmount]

RoundAmount ==
    /\ call.fn = "start"
    /\ \E result \in round_amount(call.amount, RoundDenominator, call.unit) :
          call' = [call EXCEPT !.fn = "round_amount", !.result = result]
    /\ UNCHANGED <<file, plan, pre, last, ops, favorites_raw, new_recipes_raw, inflight>>

RoundNext == RoundAmount

RoundSpec == RoundInit /\ [][RoundNext]_vars

\* result (tenths) is a multiple of step (tenths) that is nearest to amount / d
NearestMultiple(result, amount, d, step) ==
    /\ result % step = 0
    /\ 2 * (result * d - 10 * amount) <= step * d
    /\ 2 * (10 * amount - result * d) <= step * d

\* the rounding rule of the unit classes, with the given units rounded to tens
RoundedByClass(tens) ==
    call.fn = "round_amount" =>
       IF call.unit \in tens
       THEN NearestMultiple(call.result, call.amount, RoundDenominator, 100)
       ELSE IF call.unit \in {"stück", "scheibe"}
       THEN \/ NearestMultiple(call.result, call.amount, RoundDenominator, 10) /\ call.result >= 10
            \/ call.result = 10 /\ 2 * call.amount <= RoundDenominator
       ELSE IF call.unit \in {"esslöffel", "teelöffel"}
       THEN NearestMultiple(call.result, call.amount, RoundDenominator, 5)
       ELSE NearestMultiple(call.result, call.amount, RoundDenominator, 1)

(***************************************************************************)
(* C25 as stated: round_amount rounds an amount in gramm, kilogramm,       *)
(* milliliter or liter to the nearest multiple of 10, in stück or scheibe  *)
(* to the nearest whole number and at least 1, in esslöffel or teelöffel   *)
(* to the nearest 0.5, and with any other or no unit to one decimal.       *)
(***************************************************************************)
C25_MassVolumeToTens ==
    RoundedByClass({"gramm", "kilogramm", "milliliter", "liter"})

(***************************************************************************)
(* C25 amended: only gramm and milliliter are rounded to the nearest       *)
(* multiple of 10; kilogramm and liter are rounded to one decimal like     *)
(* every other unit.                                                       *)
(***************************************************************************)
C25_GrammMilliliterToTens ==
    /\ RoundedByClass({"gramm", "milliliter"})
    /\ (call.fn = "round_amount" /\ call.unit \in {"kilogramm", "liter"}) =>
          NearestMultiple(call.result, call.amount, RoundDenominator, 1)

\* 167 gramm have been rounded to 170
C25_Witness ==
    /\ call.fn = "round_amount"
    /\ call.unit = "gramm"
    /\ call.amount = 167 * RoundDenominator
    /\ call.result = 1700

(***************************************************************************)
(* Split of the shopping list by store.                                    *)
(***************************************************************************)
MaxItems == 3

\* the ingredient names of the items and the base ingredients of the catalog
ItemNames == {"Möhre", "karotte", "wurzel", "reis", "Orange", "eisbergsalat"}

CatalogNames == {"Karotte", "möhre", "apfelsine", "eis", "salat"}

\* synonym -> canonical form
INGREDIENT_SYNONYMS ==
    {<<"karotte", "möhre">>,
     <<"mohrrübe", "möhre">>,
     <<"gelbe rübe", "möhre">>,
     <<"wurzel", "möhre">>,
     <<"lauch", "porree">>,
     <<"aubergine", "eierfrucht">>,
     <<"zucchino", "zucchini">>,
     <<"paprikaschote", "paprika">>,
     <<"peperoni", "paprika">>,
     <<"broccoli", "brokkoli">>,
     <<"blaukraut", "rotkohl">>,
     <<"rotkraut", "rotkohl">>,
     <<"weißkraut", "weißkohl">>,
     <<"kraut", "weißkohl">>,
     <<"rosenkohl", "kohlsprossen">>,
     <<"champignon", "steinchampignon">>,
     <<"eierschwammerl", "pfifferling">>,
     <<"koriander", "koriandergrün">>,
     <<"schnittlauch", "schnittlauch">>,
     <<"petersilie", "petersilie">>,
     <<"mandarine", "clementine">>,
     <<"satsuma", "clementine">>,
     <<"orange", "apfelsine">>,
     <<"apfelsine", "orange">>,
     <<"erdapfel", "kartoffel">>,
     <<"grundbirne", "kartoffel">>}

get_ingredient_synonyms_KeyOnly(ingredient) ==
    {lower(ingredient)} \cup {x[2] : x \in {y \in INGREDIENT_SYNONYMS : y[1] = lower(ingredient)}}

get_ingredient_synonyms(ingredient) ==
    LET i == lower(ingredient)
    IN {i}
       \cup {x[2] : x \in {y \in INGREDIENT_SYNONYMS : y[1] = i}}
       \cup UNION {{x[1], x[2]} : x \in {y \in INGREDIENT_SYNONYMS : y[2] = i \/ y[1] = i}}

_is_available_at_bioland(ingredient, available) ==
    LET ingredient_lower == lower(ingredient)
    IN IF ingredient_lower \in available THEN TRUE
       ELSE IF get_ingredient_synonyms(ingredient_lower) \cap available # {} THEN TRUE
       ELSE \E avail \in available : In(ingredient_lower, avail) \/ In(avail, ingredient_lower)

\* the loop over the items from position i on: <<bioland_items, rewe_items>>
RECURSIVE split_items(_, _, _, _, _)
split_items(items, available_lower, i, bioland_items, rewe_items) ==
    IF i > Len(items) THEN <<bioland_items, rewe_items>>
    ELSE IF _is_available_at_bioland(items[i].ingredient, available_lower)
    THEN split_items(items, available_lower, i + 1, Append(bioland_items, items[i]), rewe_items)
    ELSE split_items(items, available_lower, i + 1, bioland_items, Append(rewe_items, items[i]))

split_shopping_list_by_store(items, available) ==
    LET available_lower == {lower(ing) : ing \in available}
        r == split_items(items, available_lower, 1, <<>>, <<>>)
    IN [bioland |-> r[1], rewe |-> r[2]]

\* the shopping lists of up to MaxItems items
ItemLists ==
    UNION {[1..n -> {[ingredient |-> name, unit |-> NoUnit, amount |-> NoAmount,
                      recipes |-> <<>>] : name \in ItemNames}] : n \in 0..MaxItems}

SplitInit ==
    /\ file = NoFile
    /\ plan = None
    /\ pre = None
    /\ last = Request("start", None, <<>>, 0, "", 0)
    /\ ops = 0
    /\ favorites_raw = <<>>
    /\ new_recipes_raw = <<>>
    /\ inflight = <<>>
    /\ \E items \in ItemLists, available \in SUBSET CatalogNames :
          call = [fn |-> "start", items |-> items, available |-> available,
                  bioland |-> <<>>, rewe |-> <<>>]

SplitShoppingListByStore ==
    /\ call.fn = "start"
    /\ LET r == split_shopping_list_by_store(call.items, call.available)
       IN call' = [call EXCEPT !.fn = "split_shopping_list_by_store",
                               !.bioland = r.bioland, !.rewe = r.rewe]
    /\ UNCHANGED <<file, plan, pre, last, ops, favorites_raw, new_recipes_raw, inflight>>

SplitNext == SplitShoppingListByStore

SplitSpec == SplitInit /\ [][SplitNext]_vars

\* the number of positions of seq that hold x
Count(x, seq) == Cardinality({n \in 1..Len(seq) : seq[n] = x})

\* a and b are synonyms: one is the listed synonym or canonical form of the other
Synonym(a, b) == <<a, b>> \in INGREDIENT_SYNONYMS \/ <<b, a>> \in INGREDIENT_SYNONYMS

(***************************************************************************)
(* C26: split_shopping_list_by_store partitions the items: every item is   *)
(* in exactly one bucket, and in the shop bucket exactly when its          *)
(* lower-cased name is in the availability set, or a synonym of it is, or  *)
(* it contains or is contained in an available name; the synonym relation  *)
(* is symmetric.                                                           *)
(***************************************************************************)
C26_SplitPartitions ==
    call.fn = "split_shopping_list_by_store" =>
       LET available_lower == {lower(ing) : ing \in call.available}
           InShop(item) ==
              LET name == lower(item.ingredient)
              IN \/ name \in available_lower
                 \/ \E a \in available_lower : Synonym(name, a)
                 \/ \E a \in available_lower : In(name, a) \/ In(a, name)
       IN /\ \A n \in 1..Len(call.items) :
                /\ Count(call.items[n], call.bioland) + Count(call.items[n], call.rewe)
                      = Count(call.items[n], call.items)
                /\ InSeq(call.items[n], call.bioland) <=> InShop(call.items[n])
                /\ InSeq(call.items[n], call.rewe) <=> ~InShop(call.items[n])
          /\ Len(call.bioland) + Len(call.rewe) = Len(call.items)
          /\ \A n \in 1..Len(call.items), a \in available_lower :
                (a \in get_ingredient_synonyms(call.items[n].ingredient))
                   <=> (lower(call.items[n].ingredient) \in get_ingredient_synonyms(a))

\* the item Möhre is in the shop bucket because the catalog has Karotte, next to
\* an item of the other bucket
C26_Witness ==
    /\ call.fn = "split_shopping_list_by_store"
    /\ call.available = {"Karotte"}
    /\ \E n \in 1..Len(call.bioland) : call.bioland[n].ingredient = "Möhre"
    /\ \E n \in 1..Len(call.rewe) : call.rewe[n].ingredient = "wurzel"

(***************************************************************************)
(* Generation with a failing search collaborator.  An exception is the     *)
(* value Raised; score is the preliminary score also after the details are *)
(* loaded (the list is not sorted again).                                  *)
(***************************************************************************)
\* what a call gives: the exception it raises or the value it returns
Raised == [raised |-> TRUE, value |-> <<>>]

Returned(value) == [raised |-> FALSE, value |-> value]

\* the new recipes search_recipes finds for the query of each slot group
QueryResults == <<<<1, 2>>, <<2, 3>>, <<4>>>>

Queries == 1..Len(QueryResults)

FoundIds == UNION {{QueryResults[q][n] : n \in 1..Len(QueryResults[q])} : q \in Queries}

\* search_recipes of the collaborator: it raises or returns its results
search_recipes(query, searched) ==
    IF searched[query] = "raise" THEN Raised
    ELSE Returned([n \in 1..Len(QueryResults[query]) |-> NewRecipe(QueryResults[query][n])])

\* the results that are appended for one query: none of a URL seen before
RECURSIVE Unseen(_, _)
Unseen(results, all_results) ==
    IF results = <<>> THEN all_results
    ELSE Unseen(Tail(results),
                IF \E n \in 1..Len(all_results) : all_results[n].url = Head(results).url
                THEN all_results ELSE Append(all_results, Head(results)))

\* the loop over the queries from query on, without the except clause
RECURSIVE search_loop_NoExcept(_, _, _)
search_loop_NoExcept(query, searched, all_results) ==
    IF query > Len(QueryResults) THEN Returned(all_results)
    ELSE IF search_recipes(query, searched).raised THEN Raised
    ELSE search_loop_NoExcept(query + 1, searched,
                              Unseen(search_recipes(query, searched).value, all_results))

\* the loop over the queries from query on: a query that raises is skipped
RECURSIVE search_loop(_, _, _)
search_loop(query, searched, all_results) ==
    IF query > Len(QueryResults) THEN Returned(all_results)
    ELSE IF search_recipes(query, searched).raised
    THEN search_loop(query + 1, searched, all_results)
    ELSE search_loop(query + 1, searched,
                     Unseen(search_recipes(query, searched).value, all_results))

_search_new_recipes_NoExcept(searched) ==
    LET all_results == search_loop_NoExcept(1, searched, <<>>)
    IN IF all_results.raised THEN Raised ELSE Returned(SortByScore(all_results.value))

_search_new_recipes(searched) ==
    LET all_results == search_loop(1, searched, <<>>)
    IN IF all_results.raised THEN Raised ELSE Returned(SortByScore(all_results.value))

\* _load_recipe_details with a scraper that loads the details of a recipe
\* ("ok"), loads details that make it not viable ("filtered") or raises
RECURSIVE load_loop(_, _, _, _)
load_loop(recipes, scraped, n, detailed_recipes) ==
    IF n > Len(recipes) \/ n > MAX_DETAIL_FETCH THEN detailed_recipes
    ELSE IF recipes[n].url = "" THEN load_loop(recipes, scraped, n + 1, detailed_recipes)
    ELSE LET j == CHOOSE i \in FoundIds : NewRecipe(i).url = recipes[n].url
         IN IF scraped[j] = "filtered"
            THEN load_loop(recipes, scraped, n + 1, detailed_recipes)
            ELSE load_loop(recipes, scraped, n + 1, Append(detailed_recipes, recipes[n]))

_load_recipe_details_scraped(recipes, scraped) == load_loop(recipes, scraped, 1, <<>>)

\* run_search_agent with this search and this scraper; an exception that
\* leaves _search_new_recipes leaves run_search_agent
run_search_agent_searching(raw, searched, scraped, now) ==
    LET favorites == _score_favorites(raw)
        found == _search_new_recipes(searched)
        new_recipes == _load_recipe_details_scraped(found.value, scraped)
        slot_recommendations ==
            _assign_recipes_to_slots(all_slots("", ""), favorites, new_recipes)
        favorites_count ==
            Cardinality({n \in 1..Len(slot_recommendations) :
                            /\ top_recipe(slot_recommendations[n]) # NoRecipe
                            /\ ~top_recipe(slot_recommendations[n]).is_new})
    IN IF found.raised THEN Raised
       ELSE Returned([generated_at |-> now,
                      week_start |-> "2026-01-10",
                      completed_at |-> NoTime,
                      favorites_count |-> favorites_count,
                      new_count |-> Len(slot_recommendations) - favorites_count,
                      slots |-> slot_recommendations,
                      multi_day_groups |-> <<>>])

SearchInit ==
    /\ file = NoFile
    /\ plan = NoPlan
    /\ pre = NoPlan
    /\ last = Request("start", None, <<>>, 0, "", 0)
    /\ ops = 0
    /\ \E F \in 0..MaxFavorites : favorites_raw = [n \in 1..F |-> F + 1 - n]
    /\ new_recipes_raw = <<>>
    /\ inflight = <<>>
    /\ \E searched \in [Queries -> {"ok", "raise"}],
          scraped \in [FoundIds -> {"ok", "filtered", "raise"}] :
          call = [fn |-> "start", searched |-> searched, scraped |-> scraped]

\* the background task: run_search_agent saves the plan and the task saves it
\* again; an exception ends the task before anything is saved
GenerateSearching ==
    /\ ops = 0
    /\ LET loaded == load_weekly_plan(file)
           generated == run_search_agent_searching(favorites_raw, call.searched,
                                                   call.scraped, isoformat(ops + 1))
       IN IF generated.raised
          THEN Answer(Request("generate", None, <<>>, 0, "", 500), loaded, loaded, FALSE)
          ELSE Answer(Request("generate", None, <<>>, 0, "", 202), loaded, generated.value, TRUE)

SearchNext == GenerateSearching

SearchSpec == SearchInit /\ [][SearchNext]_vars

(***************************************************************************)
(* C27: a failure of the search collaborator, an exception from any or all *)
(* search queries or from loading the details of a candidate, never aborts *)
(* the generation: it ends with a plan of all 14 slots that is persisted,  *)
(* and when no new candidate was obtained the slots are filled from the    *)
(* favourites only.                                                        *)
(***************************************************************************)
C27_SearchFailureTolerated ==
    last.op = "generate" =>
       /\ last.status = 202
       /\ plan # NoPlan
       /\ Len(plan.slots) = 14
       /\ \A k \in 1..Len(AllSlotKeys) :
             \E n \in 1..Len(plan.slots) :
                <<plan.slots[n].weekday, plan.slots[n].slot>> = AllSlotKeys[k]
       /\ load_weekly_plan(file) = plan
       /\ (\A q \in Queries : call.searched[q] = "raise") =>
             \A n \in 1..Len(plan.slots) :
                /\ \A m \in 1..Len(plan.slots[n].recommendations) :
                      ~plan.slots[n].recommendations[m].is_new
                /\ (\E i \in 1..Len(favorites_raw) : is_recipe_viable(favorites_raw[i]))
                      => plan.slots[n].recommendations # <<>>
       /\ \A j \in FoundIds :
             ((\E q \in Queries : call.searched[q] = "ok"
                                     /\ \E n \in 1..Len(QueryResults[q]) : QueryResults[q][n] = j)
                /\ call.scraped[j] = "raise")
                => \E n \in 1..Len(plan.slots) : InSeq(NewRecipe(j), plan.slots[n].recommendations)

\* every query has raised and the plan of 14 slots is filled from favourites
C27_Witness ==
    /\ last.op = "generate"
    /\ \A q \in Queries : call.searched[q] = "raise"
    /\ Len(plan.slots) = 14
    /\ \A n \in 1..Len(plan.slots) :
          /\ plan.slots[n].recommendations # <<>>
          /\ ~top_recipe(plan.slots[n]).is_new
    /\ load_weekly_plan(file) = plan

\* the slots of p whose reuse_from points at key
ReusersOf(p, key) == {m \in 1..Len(p.slots) : p.slots[m].reuse_from = key}

(***************************************************************************)
(* C28: after any sequence of set_multi_day and clear_multi_day calls the  *)
(* multiplier of the shopping list matches the group structure of the      *)
(* persisted plan: the prep_days of the primary of a group is 1 + the      *)
(* number of slots whose reuse_from points at it and is the total_days of  *)
(* the group, and the prep_days of every other slot is 1.                  *)
(***************************************************************************)
C28_PrepDaysMatchGroups ==
    LET p == load_weekly_plan(file)
    IN p # NoPlan =>
          \A n \in 1..Len(p.slots) :
             LET key == <<p.slots[n].weekday, p.slots[n].slot>>
             IN IF GroupsOf(p, key) # {}
                THEN /\ p.slots[n].prep_days = 1 + Cardinality(ReusersOf(p, key))
                     /\ \A g \in GroupsOf(p, key) : p.slots[n].prep_days = total_days(g)
                ELSE p.slots[n].prep_days = 1

(***************************************************************************)
(* set_multi_day followed by clear_multi_day on one plan object.           *)
(***************************************************************************)
\* the generated plan with these selections
SelectedPlan(selection) ==
    [GeneratedPlan EXCEPT
       !.slots = [i \in 1..NumSlots |-> [@[i] EXCEPT !.selected_index = selection[i]]]]

\* the plans the calls start from: the generated plan, with or without an
\* earlier group of two slots
TripPlans ==
    {SelectedPlan(selection) : selection \in [1..NumSlots -> {0, 1}]}
       \cup {set_multi_day(SelectedPlan(selection), pk, <<key>>)[2] :
                selection \in [1..NumSlots -> {0, 1}], pk \in PlanKeys, key \in PlanKeys}

TripInit ==
    /\ file = NoFile
    /\ plan \in TripPlans
    /\ pre = plan
    /\ last = Request("start", None, <<>>, 0, "", 0)
    /\ ops = 0
    /\ favorites_raw = <<>>
    /\ new_recipes_raw = <<>>
    /\ inflight = <<>>
    /\ call = [fn |-> "start", pk |-> None, reuse |-> <<>>, key |-> None,
               set_ok |-> FALSE, clear_ok |-> FALSE]

\* plan.set_multi_day(primary, reuse_slots)
TripSetMultiDay ==
    /\ call.fn = "start"
    /\ \E pk \in ArgKeys, reuse \in ReuseLists :
          LET r == set_multi_day(plan, pk, reuse)
          IN /\ plan' = r[2]
             /\ call' = [call EXCEPT !.fn = "set_multi_day", !.pk = pk, !.reuse = reuse,
                                     !.set_ok = r[1]]
    /\ UNCHANGED <<file, pre, last, ops, favorites_raw, new_recipes_raw, inflight>>

\* plan.clear_multi_day(weekday, slot) on the plan set_multi_day has changed
TripClearMultiDay ==
    /\ call.fn = "set_multi_day"
    /\ \E key \in ArgKeys :
          LET r == clear_multi_day(plan, key)
          IN /\ plan' = r[2]
             /\ call' = [call EXCEPT !.fn = "clear_multi_day", !.key = key, !.clear_ok = r[1]]
    /\ UNCHANGED <<file, pre, last, ops, favorites_raw, new_recipes_raw, inflight>>

TripNext == TripSetMultiDay \/ TripClearMultiDay

TripSpec == TripInit /\ [][TripNext]_vars

(***************************************************************************)
(* C30: set_multi_day followed by clear_multi_day on a reuse slot of the   *)
(* call or on its primary is no round trip: a reuse slot that is           *)
(* standalone again has an empty candidate list, no selected recipe and no *)
(* entry in the shopping list, and the candidates, selected_index and      *)
(* reuse_from of every slot the calls do not name are as before.           *)
(***************************************************************************)
C30_ClearDoesNotRestore ==
    (/\ call.fn = "clear_multi_day"
     /\ call.set_ok
     /\ call.clear_ok
     /\ (call.key = call.pk \/ InSeq(call.key, call.reuse)))
    => \A n \in 1..Len(plan.slots) :
          LET key == SlotKey(plan.slots[n])
          IN /\ (InSeq(key, call.reuse) /\ plan.slots[n].reuse_from = None)
                   => /\ plan.slots[n].recommendations = <<>>
                      /\ selected_recipe(plan.slots[n]) = NoRecipe
                      /\ \A e \in 1..Len(generate_shopping_list(plan)) :
                            generate_shopping_list(plan)[e].key # key
                      /\ pre.slots[n].recommendations # <<>> => plan # pre
             /\ (~InSeq(key, call.reuse) /\ key # call.pk /\ key # call.key)
                   => /\ plan.slots[n].recommendations = pre.slots[n].recommendations
                      /\ plan.slots[n].selected_index = pre.slots[n].selected_index
                      /\ plan.slots[n].reuse_from = pre.slots[n].reuse_from

\* Montag Abendessen was made a reuse slot of Montag Mittagessen and cleared:
\* it is standalone without candidates, Dienstag Mittagessen is as it was
C30_Witness ==
    /\ call.fn = "clear_multi_day"
    /\ call.set_ok
    /\ call.clear_ok
    /\ call.pk = <<"Montag", "Mittagessen">>
    /\ call.reuse = <<<<"Montag", "Abendessen">>>>
    /\ call.key = <<"Montag", "Abendessen">>
    /\ pre.multi_day_groups = <<>>
    /\ pre.slots[2].recommendations # <<>>
    /\ plan.slots[2].recommendations = <<>>
    /\ plan.slots[2].reuse_from = None
    /\ plan.slots[3] = pre.slots[3]

\* process j is a finished client request that loaded the plan the generation
\* of process i had made visible, changed it and was answered 200 after saving
AcknowledgedChange(i, j) ==
    /\ inflight[i].req.op = "generate"
    /\ inflight[j].req.op \in {"router_select", "select_url", "set_multi_day", "clear_multi_day"}
    /\ inflight[j].pc = "done"
    /\ inflight[j].held = inflight[i].held
    /\ LET r == handler_result(inflight[j].req, inflight[j].held, isoformat(j))
       IN r[1] = 200 /\ r[3] /\ r[2] # inflight[i].held

(***************************************************************************)
(* C29: once run_search_agent has saved the generated plan, a selection or *)
(* multi-day change that a client makes on that plan and that is answered  *)
(* as persisted is not overwritten by the later save of the same           *)
(* generation task: when the task has finished, the persisted plan is not  *)
(* the unmodified generated plan.                                          *)
(***************************************************************************)
C29_AcknowledgedChangeKept ==
    \A i, j \in DOMAIN inflight :
       (AcknowledgedChange(i, j) /\ inflight[i].pc = "done")
          => load_weekly_plan(file) # inflight[i].held

====
